---- MODULE Spec2Model ----
(***************************************************************************)
(* tacobridge: plan / execute / finalize bridge between the ZIP and the    *)
(* FOLDER layout of a TACO dataset.  The model follows                     *)
(*   src/tacobridge/_metadata.py  (strip, reindex, local metadata)         *)
(*   src/tacobridge/plan.py       (plan_export, plan_zip2folder,           *)
(*                                 plan_folder2zip)                        *)
(*   src/tacobridge/execute.py    (execute)                                *)
(*   src/tacobridge/finalize.py   (finalize)                               *)
(*   src/tacobridge/api.py        (export, zip2folder, folder2zip)         *)
(* A table is a record [names, rows]: names is the schema (set of column   *)
(* names), rows a sequence of functions from column name to value.         *)
(* A path is the sequence of its components: "DATA/r0/c1" is               *)
(* <<"DATA", "r0", "c1">>, and joining with "/" is concatenation.  None    *)
(* and the empty string are both "" (or <<>> for a path).                  *)
(***************************************************************************)
EXTENDS Integers, Sequences, FiniteSets, TLC

VARIABLES
    dataset,   \* the TacoDataset (view) handed to the planner / stored at source
    heap,      \* nested dict objects of the collection manifest, by reference
    fs,        \* the filesystem: directories and files
    call,      \* the entry point called and its arguments
    pc,        \* position of the call
    plan,      \* the plan returned by plan_* (NoPlan before)
    err,       \* the exception raised ("" when none)
    queries,   \* what the call asked of the reader so far: the number of evaluations
               \* of the level-0 view, the rows each returned, the number of loads
    work,      \* locals of a running high-level call: the tasks it executes, the
               \* ones still to run, its temporary folder
    history    \* what went before: the plans earlier calls of the same plan_*
               \* function returned, the runs of execute so far, or the phases a
               \* high-level call has entered

vars == <<dataset, heap, fs, call, pc, plan, err, queries, work, history>>

-----------------------------------------------------------------------------
(* Bounds of the model *)

MaxDepth == 3
MaxRoots == 2
MaxKids == 2
MaxLevelRows == 4
MaxCalls == 2
MaxBytes == 3

-----------------------------------------------------------------------------
(* src/tacobridge/_constants.py *)

COLUMN_ID == "id"
COLUMN_TYPE == "type"
METADATA_CURRENT_ID == "internal:current_id"
METADATA_PARENT_ID == "internal:parent_id"
METADATA_GDAL_VSI == "internal:gdal_vsi"
METADATA_RELATIVE_PATH == "internal:relative_path"
METADATA_OFFSET == "internal:offset"
METADATA_SIZE == "internal:size"
METADATA_SOURCE_PATH == "internal:source_path"
METADATA_SOURCE_FILE == "internal:source_file"
SAMPLE_TYPE_FILE == "FILE"
SAMPLE_TYPE_FOLDER == "FOLDER"
FOLDER_DATA_DIR == "DATA"
FOLDER_METADATA_DIR == "METADATA"
FOLDER_META_FILENAME == "__meta__"
FOLDER_COLLECTION_FILENAME == "COLLECTION.json"
PIT_SCHEMA_KEY == "taco:pit_schema"
FIELD_SCHEMA_KEY == "taco:field_schema"
SUBSET_OF_KEY == "taco:subset_of"
SUBSET_DATE_KEY == "taco:subset_date"

ZIP_ONLY_COLUMNS == {METADATA_OFFSET, METADATA_SIZE}
CONCAT_COLUMNS == {METADATA_SOURCE_PATH, METADATA_SOURCE_FILE}
EXPORT_STRIP_COLUMNS == ZIP_ONLY_COLUMNS \cup CONCAT_COLUMNS

-----------------------------------------------------------------------------
(* Generic helpers *)

\* dict.get(col): the value, or "" (None) when the key is absent
Get(row, col) == IF col \in DOMAIN row THEN row[col] ELSE ""

\* row.get(internal:relative_path): a path, <<>> when absent
GetPath(row, col) == IF col \in DOMAIN row THEN row[col] ELSE <<>>

\* the subsequence of s at the positions in idx, in order
RECURSIVE Pick(_, _, _)
Pick(s, idx, i) ==
    IF i > Len(s) THEN <<>>
    ELSE (IF i \in idx THEN <<s[i]>> ELSE <<>>) \o Pick(s, idx, i + 1)

RECURSIVE Flatten(_)
Flatten(ss) == IF ss = <<>> THEN <<>> ELSE Head(ss) \o Flatten(Tail(ss))

Range(s) == {s[i] : i \in DOMAIN s}

-----------------------------------------------------------------------------
(* The datasets the reader hands over (tacoreader.load, .sql, concat).      *)
(* A source is a position-invariant tree as the fixtures build it: n0 root  *)
(* samples of one type, and at every deeper level the same list of children *)
(* (ids and types) under every FOLDER of the level above.                   *)
(* src/tests/fixtures/regenerate.py: create_flat_a, create_nested_a,        *)
(* create_deep.                                                              *)

RootNames == <<"r0", "r1", "r2", "r3">>
ChildNames == <<"c0", "c1", "c2", "c3">>
Types == {SAMPLE_TYPE_FILE, SAMPLE_TYPE_FOLDER}

\* the children lists: sequences of sample types of length 0..MaxKids
Pats == UNION {[1..k -> Types] : k \in 0..MaxKids}

NumFolderKids(pat) == Cardinality({j \in DOMAIN pat : pat[j] = SAMPLE_TYPE_FOLDER})

\* number of rows / of FOLDER rows of level l of one source
RECURSIVE NumRows(_, _)
RECURSIVE NumFolders(_, _)
NumRows(sh, l) ==
    IF l = 0 THEN sh.n0 ELSE NumFolders(sh, l - 1) * Len(sh.pats[l])
NumFolders(sh, l) ==
    IF l = 0 THEN (IF sh.rootType = SAMPLE_TYPE_FOLDER THEN sh.n0 ELSE 0)
    ELSE NumFolders(sh, l - 1) * NumFolderKids(sh.pats[l])

\* rows are numbered 0..NumRows-1 (internal:current_id of a loaded archive)
TypeAt(sh, l, c) ==
    IF l = 0 THEN sh.rootType ELSE sh.pats[l][(c % Len(sh.pats[l])) + 1]

IdAt(src, sh, l, c) ==
    IF l = 0 THEN src.prefix \o RootNames[c + 1]
    ELSE ChildNames[(c % Len(sh.pats[l])) + 1]

\* the current ids of the FOLDER rows of level l, in row order
FolderIds(sh, l) ==
    LET all == [i \in 1..NumRows(sh, l) |-> i - 1]
    IN  SelectSeq(all, LAMBDA c : TypeAt(sh, l, c) = SAMPLE_TYPE_FOLDER)

\* the current id (level l-1) of the parent of row c of level l
ParentOf(sh, l, c) ==
    IF l = 0 THEN c ELSE FolderIds(sh, l - 1)[(c \div Len(sh.pats[l])) + 1]

RECURSIVE PathAt(_, _, _, _)
PathAt(src, sh, l, c) ==
    IF l = 0 THEN <<IdAt(src, sh, l, c)>>
    ELSE Append(PathAt(src, sh, l - 1, ParentOf(sh, l, c)), IdAt(src, sh, l, c))

\* internal:gdal_vsi of a row: a byte range of the archive (ZIP form) or a
\* plain path (FOLDER form); the string itself is the reader's
VsiOf(fmt, src, sh, l, c) ==
    IF fmt = "zip"
    THEN [subfile |-> TRUE, path |-> src.path, offset |-> 10 * l + c, size |-> 1]
    ELSE [subfile |-> FALSE,
          path |-> src.path \o <<FOLDER_DATA_DIR>> \o PathAt(src, sh, l, c)]

\* a column of the user (sample.extend_with); its values repeat from row to row
COLUMN_LOCATION == "location"
Locations == <<"madrid", "barcelona">>

ColumnsOf(fmt, concat, hasRel) ==
    {COLUMN_ID, COLUMN_TYPE, COLUMN_LOCATION,
     METADATA_CURRENT_ID, METADATA_PARENT_ID, METADATA_GDAL_VSI}
    \cup (IF hasRel THEN {METADATA_RELATIVE_PATH} ELSE {})
    \cup (IF fmt = "zip" THEN ZIP_ONLY_COLUMNS ELSE {})
    \cup (IF concat = "path" THEN {METADATA_SOURCE_PATH} ELSE {})
    \cup (IF concat = "file" THEN {METADATA_SOURCE_FILE} ELSE {})
    \cup (IF concat = "both" THEN CONCAT_COLUMNS ELSE {})

RowOf(cols, fmt, src, sh, l, c) ==
    [col \in cols |->
        CASE col = COLUMN_ID -> IdAt(src, sh, l, c)
          [] col = COLUMN_TYPE -> TypeAt(sh, l, c)
          [] col = COLUMN_LOCATION -> Locations[(c % Len(Locations)) + 1]
          [] col = METADATA_CURRENT_ID -> c
          [] col = METADATA_PARENT_ID -> ParentOf(sh, l, c)
          [] col = METADATA_GDAL_VSI -> VsiOf(fmt, src, sh, l, c)
          [] col = METADATA_RELATIVE_PATH -> PathAt(src, sh, l, c)
          [] col = METADATA_OFFSET -> 10 * l + c
          [] col = METADATA_SIZE -> 1
          [] col = METADATA_SOURCE_PATH -> src.name
          [] col = METADATA_SOURCE_FILE -> src.name]

\* level l of a dataset: the rows of each source in turn
LevelTable(cols, fmt, srcs, sh, l) ==
    [names |-> cols,
     rows |-> Flatten([s \in DOMAIN srcs |->
                [i \in 1..NumRows(sh, l) |-> RowOf(cols, fmt, srcs[s], sh, l, i - 1)]])]

-----------------------------------------------------------------------------
(* src/tacobridge/_metadata.py *)

get_source_key(row, has_source_path, has_source_file) ==
    IF has_source_path /\ Get(row, METADATA_SOURCE_PATH) # ""
    THEN row[METADATA_SOURCE_PATH]
    ELSE IF has_source_file /\ Get(row, METADATA_SOURCE_FILE) # ""
         THEN row[METADATA_SOURCE_FILE]
         ELSE ""

\* a strip that removes nothing
strip_columns_kept(table, columns) == table

strip_columns(table, columns) ==
    [names |-> table.names \ columns,
     rows |-> [i \in DOMAIN table.rows |->
                [c \in (DOMAIN table.rows[i]) \ columns |-> table.rows[i][c]]]]

\* SELECT * FROM level<l>
LevelView(ds, level_idx) == ds.levels[level_idx + 1]

strip_zip_columns(ds) ==
    [l \in 1..(ds.max_depth + 1) |->
        strip_columns(LevelView(ds, l - 1), EXPORT_STRIP_COLUMNS)]

\* range(n) as a sequence
PyRange(n) == [i \in 1..n |-> i - 1]

\* a reindex that rewrites the parent ids and leaves the current ids as read
reindex_table_parents_only(table, new_current_ids, new_parent_ids) ==
    [names |-> table.names,
     rows |-> [i \in DOMAIN table.rows |->
                [table.rows[i] EXCEPT ![METADATA_PARENT_ID] = new_parent_ids[i]]]]

reindex_table(table, new_current_ids, new_parent_ids) ==
    [names |-> table.names,
     rows |-> [i \in DOMAIN table.rows |->
                [table.rows[i] EXCEPT ![METADATA_CURRENT_ID] = new_current_ids[i],
                                      ![METADATA_PARENT_ID] = new_parent_ids[i]]]]

\* parent_id_mapping[(source_key, old_id)] = new_idx for the rows in turn (a later
\* row with the same key overwrites an earlier one)
MappingOf(rows, hsp, hsf) ==
    LET key(i) == <<get_source_key(rows[i], hsp, hsf), rows[i][METADATA_CURRENT_ID]>>
        keys == {key(i) : i \in DOMAIN rows}
    IN  [k \in keys |->
            (CHOOSE i \in DOMAIN rows :
                /\ key(i) = k
                /\ \A j \in DOMAIN rows : key(j) = k => j <= i) - 1]

DictUpdate(d, e) ==
    [k \in (DOMAIN d) \cup (DOMAIN e) |-> IF k \in DOMAIN e THEN e[k] ELSE d[k]]

\* the table read at level_idx > 0: the filtered variant when the view has one
ReindexSource(ds, level_idx) ==
    IF level_idx \in DOMAIN ds.filtered_level_views
    THEN ds.filtered_level_views[level_idx]
    ELSE LevelView(ds, level_idx)

\* one turn of the loop over levels (lines 127-168): the level's table and the
\* mapping after it
ReindexLevel(ds, level0_snapshot, level_idx, parent_id_mapping) ==
    LET hsp == METADATA_SOURCE_PATH \in level0_snapshot.names
        hsf == METADATA_SOURCE_FILE \in level0_snapshot.names
    IN  IF level_idx = 0
        THEN LET n == Len(level0_snapshot.rows)
             IN  [mapping |-> DictUpdate(parent_id_mapping,
                                         MappingOf(level0_snapshot.rows, hsp, hsf)),
                  table |-> strip_columns(
                                reindex_table(level0_snapshot, PyRange(n), PyRange(n)),
                                EXPORT_STRIP_COLUMNS)]
        ELSE LET table == ReindexSource(ds, level_idx)
                 key(row) == <<get_source_key(row, hsp, hsf), row[METADATA_PARENT_ID]>>
                 filtered_rows ==
                     SelectSeq(table.rows, LAMBDA row : key(row) \in DOMAIN parent_id_mapping)
                 new_parent_ids ==
                     [i \in DOMAIN filtered_rows |-> parent_id_mapping[key(filtered_rows[i])]]
                 kept == [names |-> table.names, rows |-> filtered_rows]
             IN  [mapping |-> DictUpdate(parent_id_mapping,
                                         MappingOf(filtered_rows, hsp, hsf)),
                  table |-> strip_columns(
                                reindex_table(kept, PyRange(Len(filtered_rows)),
                                              new_parent_ids),
                                EXPORT_STRIP_COLUMNS)]

RECURSIVE ReindexLoop(_, _, _, _, _)
ReindexLoop(ds, level0_snapshot, level_idx, parent_id_mapping, levels) ==
    IF level_idx > ds.max_depth THEN levels
    ELSE LET r == ReindexLevel(ds, level0_snapshot, level_idx, parent_id_mapping)
         IN  ReindexLoop(ds, level0_snapshot, level_idx + 1, r.mapping,
                         Append(levels, r.table))

\* the body of the loop without lines 222-223 (internal:relative_path stays in the
\* children table)
LocalMetaFolder_with_relative_path(folder, level_idx, next_level, prev_paths, st) ==
    LET current_id == folder[METADATA_CURRENT_ID]
        parent_id == folder[METADATA_PARENT_ID]
        parent_path == IF parent_id \in DOMAIN prev_paths THEN prev_paths[parent_id] ELSE <<>>
        rel_path == IF level_idx = 0 THEN <<folder[COLUMN_ID]>>
                    ELSE IF parent_path # <<>> THEN Append(parent_path, folder[COLUMN_ID])
                    ELSE <<folder[COLUMN_ID]>>
        folder_path == <<FOLDER_DATA_DIR>> \o rel_path
        children_indices ==
            {i \in DOMAIN next_level.rows :
                next_level.rows[i][METADATA_PARENT_ID] = current_id}
        children == [names |-> next_level.names,
                     rows |-> Pick(next_level.rows, children_indices, 1)]
    IN  [paths |-> DictUpdate(st.paths, [k \in {current_id} |-> rel_path]),
         lm |-> DictUpdate(st.lm, [k \in {folder_path} |-> children])]

\* build_local_metadata, the body of the loop over the folders of one level:
\* st = [paths: paths_by_level[level_idx], lm: local_metadata]
LocalMetaFolder(folder, level_idx, next_level, prev_paths, st) ==
    LET current_id == folder[METADATA_CURRENT_ID]
        parent_id == folder[METADATA_PARENT_ID]
        parent_path == IF parent_id \in DOMAIN prev_paths THEN prev_paths[parent_id] ELSE <<>>
        rel_path == IF level_idx = 0 THEN <<folder[COLUMN_ID]>>
                    ELSE IF parent_path # <<>> THEN Append(parent_path, folder[COLUMN_ID])
                    ELSE <<folder[COLUMN_ID]>>
        folder_path == <<FOLDER_DATA_DIR>> \o rel_path
        children_indices ==
            {i \in DOMAIN next_level.rows :
                next_level.rows[i][METADATA_PARENT_ID] = current_id}
        children == [names |-> next_level.names,
                     rows |-> Pick(next_level.rows, children_indices, 1)]
    IN  [paths |-> DictUpdate(st.paths, [k \in {current_id} |-> rel_path]),
         lm |-> DictUpdate(st.lm,
                    [k \in {folder_path} |->
                        strip_columns(children, {METADATA_RELATIVE_PATH})])]

RECURSIVE LocalMetaFolders(_, _, _, _, _, _)
LocalMetaFolders(folders, i, level_idx, next_level, prev_paths, st) ==
    IF i > Len(folders) THEN st
    ELSE LocalMetaFolders(folders, i + 1, level_idx, next_level, prev_paths,
             LocalMetaFolder(folders[i], level_idx, next_level, prev_paths, st))

EmptyDict == [k \in {} |-> 0]

RECURSIVE LocalMetaLevels(_, _, _, _)
LocalMetaLevels(levels, level_idx, prev_paths, local_metadata) ==
    IF level_idx > Len(levels) - 2 THEN local_metadata
    ELSE LET current_level == levels[level_idx + 1]
             folders == SelectSeq(current_level.rows,
                            LAMBDA r : r[COLUMN_TYPE] = SAMPLE_TYPE_FOLDER)
             st == LocalMetaFolders(folders, 1, level_idx, levels[level_idx + 2],
                                    prev_paths, [paths |-> EmptyDict, lm |-> local_metadata])
         IN  LocalMetaLevels(levels, level_idx + 1, st.paths, st.lm)

build_local_metadata(levels) == LocalMetaLevels(levels, 0, EmptyDict, EmptyDict)

reindex_metadata_from_snapshot(ds, level0_snapshot) ==
    LET levels == ReindexLoop(ds, level0_snapshot, 0, EmptyDict, <<>>)
    IN  [levels |-> levels, local_metadata |-> build_local_metadata(levels)]

\* the nested objects of a collection manifest live in the heap; a manifest is a
\* dict whose taco:pit_schema and taco:field_schema values are references
PitRoot(collection, hp) == hp[collection[PIT_SCHEMA_KEY]]["root"]

\* a prepare_collection that stamps taco:subset_of with the time of the call
prepare_collection_stamping_subset_of(ds, hp, now) ==
    LET collection == ds.collection
        root == PitRoot(collection, hp)
    IN  [heap |-> [hp EXCEPT ![root] = [@ EXCEPT !["n"] = ds.root_n]],
         collection |->
            DictUpdate(collection, [k \in {SUBSET_OF_KEY, SUBSET_DATE_KEY} |-> now])]

\* lines 236-240; dict.copy() copies the top level only, so the assignment to
\* root.n goes through the shared nested object
prepare_collection(ds, hp, now) ==
    LET collection == ds.collection
        root == PitRoot(collection, hp)
    IN  [heap |-> [hp EXCEPT ![root] = [@ EXCEPT !["n"] = ds.root_n]],
         collection |->
            DictUpdate(collection,
                [k \in {SUBSET_OF_KEY, SUBSET_DATE_KEY} |->
                    IF k = SUBSET_OF_KEY
                    THEN (IF "id" \in DOMAIN collection THEN collection["id"] ELSE "unknown")
                    ELSE now])]

-----------------------------------------------------------------------------
(* src/tacobridge/plan.py *)

vsi_to_copy_task(vsi, dest) ==
    IF vsi.subfile
    THEN [src |-> vsi.path, dest |-> dest, offset |-> <<vsi.offset>>, size |-> <<vsi.size>>]
    ELSE [src |-> vsi.path, dest |-> dest, offset |-> <<>>, size |-> <<>>]

query_children(ds, next_level, parent_id, source_path, source_file) ==
    SelectSeq(LevelView(ds, next_level).rows,
        LAMBDA r :
            /\ r[METADATA_PARENT_ID] = parent_id
            /\ IF source_path # "" THEN r[METADATA_SOURCE_PATH] = source_path
               ELSE IF source_file # "" THEN r[METADATA_SOURCE_FILE] = source_file
               ELSE TRUE)

\* lines 151-155 and 189-193: the task of a FILE row
FileTask(row, data_dir) ==
    LET rel == GetPath(row, METADATA_RELATIVE_PATH)
        rel_path == IF rel # <<>> THEN rel ELSE <<row[COLUMN_ID]>>
    IN  vsi_to_copy_task(row[METADATA_GDAL_VSI], data_dir \o rel_path)

RECURSIVE collect_folder_children(_, _, _, _)
collect_folder_children(ds, folder_row, data_dir, level) ==
    LET next_level == level + 1
    IN  IF next_level > ds.max_depth THEN <<>>
        ELSE LET children == query_children(ds, next_level,
                                 folder_row[METADATA_CURRENT_ID],
                                 Get(folder_row, METADATA_SOURCE_PATH),
                                 Get(folder_row, METADATA_SOURCE_FILE))
             IN  Flatten([i \in DOMAIN children |->
                    IF children[i][COLUMN_TYPE] = SAMPLE_TYPE_FOLDER
                    THEN collect_folder_children(ds, children[i], data_dir, next_level)
                    ELSE <<FileTask(children[i], data_dir)>>])

collect_copy_tasks_from_snapshot(ds, level0_snapshot, output) ==
    LET data_dir == output \o <<FOLDER_DATA_DIR>>
        rows == level0_snapshot.rows
    IN  Flatten([i \in DOMAIN rows |->
            IF rows[i][COLUMN_TYPE] = SAMPLE_TYPE_FOLDER
            THEN collect_folder_children(ds, rows[i], data_dir, 0)
            ELSE <<FileTask(rows[i], data_dir)>>])

\* SELECT * FROM <dataset._view_name>: the rows the view returns this time
ViewTable(ds, mask) ==
    [names |-> LevelView(ds, 0).names, rows |-> Pick(LevelView(ds, 0).rows, mask, 1)]

\* what one evaluation of the view can return: a view with a non-deterministic
\* operator (random sampling) returns any part of its rows
ViewResults(ds) == IF ds.random THEN SUBSET ds.view ELSE {ds.view}

Exists(fsys, path) == path \in fsys.dirs \/ path \in DOMAIN fsys.files

NoPlan == [kind |-> "none"]

\* the outcome of a call: the exception ("" when none), the plan, the heap and
\* the reader's log after it
Raise(e, hp, q) == [err |-> e, plan |-> NoPlan, heap |-> hp, queries |-> q]

\* a planner that reads the view once for the tasks and once more for the metadata
plan_export_two_reads(ds, hp, fsys, output, results, now, q) ==
    IF Exists(fsys, output) THEN Raise("PlanError: Output already exists", hp, q)
    ELSE IF ds.root_n = 0 THEN Raise("PlanError: Dataset is empty", hp, q)
    ELSE IF ds.has_level1_joins
    THEN Raise("PlanError: Cannot export dataset with level1+ JOINs", hp, q)
    ELSE LET tasks == collect_copy_tasks_from_snapshot(
                          ds, ViewTable(ds, results[q.view_evals + 1]), output)
             meta == reindex_metadata_from_snapshot(
                          ds, ViewTable(ds, results[q.view_evals + 2]))
             c == prepare_collection(ds, hp, now)
         IN  [err |-> "",
              plan |-> [kind |-> "ExportPlan", tasks |-> tasks, source |-> ds.path,
                        output |-> output, levels |-> meta.levels,
                        local_metadata |-> meta.local_metadata,
                        collection |-> c.collection],
              heap |-> c.heap,
              queries |-> [q EXCEPT !.view_evals = @ + 2,
                                    !.returned = @ \o <<results[q.view_evals + 1],
                                                        results[q.view_evals + 2]>>]]

\* results: what the view returns on its 1st, 2nd, ... evaluation
plan_export(ds, hp, fsys, output, results, now, q) ==
    IF Exists(fsys, output) THEN Raise("PlanError: Output already exists", hp, q)
    ELSE IF ds.root_n = 0 THEN Raise("PlanError: Dataset is empty", hp, q)
    ELSE IF ds.has_level1_joins
    THEN Raise("PlanError: Cannot export dataset with level1+ JOINs", hp, q)
    ELSE LET level0_snapshot == ViewTable(ds, results[q.view_evals + 1])
             tasks == collect_copy_tasks_from_snapshot(ds, level0_snapshot, output)
             meta == reindex_metadata_from_snapshot(ds, level0_snapshot)
             c == prepare_collection(ds, hp, now)
         IN  [err |-> "",
              plan |-> [kind |-> "ExportPlan", tasks |-> tasks, source |-> ds.path,
                        output |-> output, levels |-> meta.levels,
                        local_metadata |-> meta.local_metadata,
                        collection |-> c.collection],
              heap |-> c.heap,
              queries |-> [q EXCEPT !.view_evals = @ + 1,
                                    !.returned = Append(@, results[q.view_evals + 1])]]

\* tacoreader.load(source): the archive at source loads to the dataset stored there
Loadable(fsys, source) == source \in DOMAIN fsys.files

\* lines 131-134: the view is read once more (a freshly loaded view returns all rows)
collect_copy_tasks(ds, output, results, q) ==
    collect_copy_tasks_from_snapshot(ds, ViewTable(ds, results[q.view_evals + 1]), output)

plan_zip2folder(ds, hp, fsys, source, output, results, q) ==
    IF Exists(fsys, output) THEN Raise("PlanError: Output already exists", hp, q)
    ELSE IF ~Loadable(fsys, source)
    THEN Raise("PlanError: Failed to open dataset", hp, [q EXCEPT !.loads = @ + 1])
    ELSE LET levels == strip_zip_columns(ds)
         IN  [err |-> "",
              plan |-> [kind |-> "Zip2FolderPlan",
                        tasks |-> collect_copy_tasks(ds, output, results, q),
                        source |-> source, output |-> output, levels |-> levels,
                        local_metadata |-> build_local_metadata(levels),
                        collection |-> ds.collection],
              heap |-> hp,
              queries |-> [q EXCEPT !.loads = @ + 1, !.view_evals = @ + 1,
                                    !.returned = Append(@, results[q.view_evals + 1])]]

LevelFile(i) == "level" \o ToString(i) \o ".parquet"

IsPrefix(p, path) == Len(p) <= Len(path) /\ SubSeq(path, 1, Len(p)) = p

\* a set of numbers, descending
RECURSIVE Descending(_)
Descending(S) ==
    IF S = {} THEN <<>>
    ELSE LET m == CHOOSE x \in S : \A y \in S : x >= y
         IN  <<m>> \o Descending(S \ {m})

\* a set of numbers, ascending (sorted(glob(...)) for fewer than ten level files)
RECURSIVE Ascending(_)
Ascending(S) ==
    IF S = {} THEN <<>>
    ELSE LET m == CHOOSE x \in S : \A y \in S : x <= y
         IN  <<m>> \o Ascending(S \ {m})

\* a set of paths as a sequence, in the order the directory walk yields them (an
\* order the filesystem fixes)
RECURSIVE WalkOrder(_)
WalkOrder(S) ==
    IF S = {} THEN <<>>
    ELSE LET p == CHOOSE x \in S : TRUE
         IN  <<p>> \o WalkOrder(S \ {p})

\* json.dumps of a manifest: the nested objects are written out in full
JsonDumps(collection, hp) ==
    [k \in DOMAIN collection |->
        IF k = PIT_SCHEMA_KEY THEN [root |-> hp[hp[collection[k]]["root"]]]
        ELSE IF k = FIELD_SCHEMA_KEY THEN hp[collection[k]]
        ELSE collection[k]]

\* json.loads: a manifest whose nested objects are fresh
JsonLoads(doc, hp) ==
    [collection |->
        [k \in DOMAIN doc |->
            IF k = PIT_SCHEMA_KEY THEN "f_pit"
            ELSE IF k = FIELD_SCHEMA_KEY THEN "f_field"
            ELSE doc[k]],
     heap |->
        DictUpdate(hp,
            [o \in ({"f_pit", "f_root"} \cap
                        (IF PIT_SCHEMA_KEY \in DOMAIN doc THEN {"f_pit", "f_root"} ELSE {}))
                   \cup (IF FIELD_SCHEMA_KEY \in DOMAIN doc THEN {"f_field"} ELSE {}) |->
                CASE o = "f_pit" -> [root |-> "f_root"]
                  [] o = "f_root" -> doc[PIT_SCHEMA_KEY]["root"]
                  [] o = "f_field" -> doc[FIELD_SCHEMA_KEY]])]

read_consolidated_metadata(fsys, folder) ==
    LET metadata_dir == Append(folder, FOLDER_METADATA_DIR)
        found == {i \in 0..9 : Append(metadata_dir, LevelFile(i)) \in DOMAIN fsys.files}
        level_files == Ascending(found)
    IN  IF metadata_dir \notin fsys.dirs
        THEN [err |-> "PlanError: METADATA directory not found", levels |-> <<>>]
        ELSE IF level_files = <<>>
        THEN [err |-> "PlanError: No level*.parquet files found", levels |-> <<>>]
        ELSE IF \E i \in found : "table" \notin DOMAIN fsys.files[Append(metadata_dir, LevelFile(i))]
        THEN [err |-> "ArrowInvalid: not a parquet file", levels |-> <<>>]
        ELSE [err |-> "",
              levels |-> [i \in DOMAIN level_files |->
                            fsys.files[Append(metadata_dir, LevelFile(level_files[i]))].table]]

scan_folder_files(fsys, folder) ==
    LET data_dir == Append(folder, FOLDER_DATA_DIR)
        found == {f \in DOMAIN fsys.files :
                    /\ IsPrefix(data_dir, f)
                    /\ f[Len(f)] # FOLDER_META_FILENAME}
        file_paths == WalkOrder(found)
        entries == [i \in DOMAIN file_paths |->
                      [src |-> file_paths[i],
                       arc_path |-> <<FOLDER_DATA_DIR>> \o
                            SubSeq(file_paths[i], Len(data_dir) + 1, Len(file_paths[i]))]]
    IN  IF data_dir \notin fsys.dirs
        THEN [err |-> "PlanError: DATA directory not found", entries |-> <<>>]
        ELSE IF entries = <<>>
        THEN [err |-> "PlanError: No data files found", entries |-> <<>>]
        ELSE [err |-> "", entries |-> entries]

read_collection(fsys, folder, hp) ==
    LET path == Append(folder, FOLDER_COLLECTION_FILENAME)
    IN  IF ~Exists(fsys, path)
        THEN [err |-> "PlanError: COLLECTION.json not found", collection |-> EmptyDict,
              heap |-> hp]
        ELSE IF ~fsys.files[path].json
        THEN [err |-> "PlanError: Invalid COLLECTION.json", collection |-> EmptyDict,
              heap |-> hp]
        ELSE [err |-> ""] @@ JsonLoads(fsys.files[path].doc, hp)

\* a planner that looks at the source before it looks at the output
plan_folder2zip_source_first(hp, fsys, source, output, q) ==
    IF ~Exists(fsys, source) THEN Raise("PlanError: Source folder not found", hp, q)
    ELSE IF Exists(fsys, output) THEN Raise("PlanError: Output already exists", hp, q)
    ELSE LET c == read_collection(fsys, source, hp)
             m == read_consolidated_metadata(fsys, source)
             e == scan_folder_files(fsys, source)
         IN  IF c.err # "" THEN Raise(c.err, hp, q)
             ELSE IF m.err # "" THEN Raise(m.err, hp, q)
             ELSE IF e.err # "" THEN Raise(e.err, hp, q)
             ELSE [err |-> "",
                   plan |-> [kind |-> "Folder2ZipPlan", entries |-> e.entries,
                             source |-> source, output |-> output, levels |-> m.levels,
                             local_metadata |-> build_local_metadata(m.levels),
                             collection |-> c.collection],
                   heap |-> c.heap,
                   queries |-> q]

plan_folder2zip(hp, fsys, source, output, q) ==
    IF Exists(fsys, output) THEN Raise("PlanError: Output already exists", hp, q)
    ELSE IF ~Exists(fsys, source) THEN Raise("PlanError: Source folder not found", hp, q)
    ELSE LET c == read_collection(fsys, source, hp)
             m == read_consolidated_metadata(fsys, source)
             e == scan_folder_files(fsys, source)
         IN  IF c.err # "" THEN Raise(c.err, hp, q)
             ELSE IF m.err # "" THEN Raise(m.err, hp, q)
             ELSE IF e.err # "" THEN Raise(e.err, hp, q)
             ELSE [err |-> "",
                   plan |-> [kind |-> "Folder2ZipPlan", entries |-> e.entries,
                             source |-> source, output |-> output, levels |-> m.levels,
                             local_metadata |-> build_local_metadata(m.levels),
                             collection |-> c.collection],
                   heap |-> c.heap,
                   queries |-> q]

-----------------------------------------------------------------------------
(* The datasets and calls the model ranges over *)

\* single: one archive or folder; concat_same: two sources whose samples carry
\* the same ids (the fixtures nested_a, nested_b); concat_distinct: two sources
\* with different root ids
Kinds == {"single", "concat_same", "concat_distinct"}

SourcesOf(kind, fmt) ==
    LET ext == IF fmt = "zip" THEN ".tacozip" ELSE ""
        a == [name |-> "a" \o ext, path |-> <<"a" \o ext>>, prefix |-> ""]
        b == [name |-> "b" \o ext, path |-> <<"b" \o ext>>,
              prefix |-> IF kind = "concat_distinct" THEN "b_" ELSE ""]
    IN  IF kind = "single" THEN <<a>> ELSE <<a, b>>

ConcatColumn(kind) ==
    CASE kind = "single" -> "none"
      [] kind = "concat_same" -> "path"
      [] kind = "concat_distinct" -> "file"

\* the shapes of depth D, level by level: every FOLDER has a children list one
\* level down, the deepest level holds FILEs only (so max_depth is the depth of
\* the tree), and no level of the nsrc sources has more than MaxLevelRows rows
RECURSIVE ShapesFrom(_, _, _, _)
ShapesFrom(S, l, D, nsrc) ==
    IF l > D THEN {sh \in S : NumFolders(sh, D) = 0}
    ELSE ShapesFrom(
            UNION {{[sh EXCEPT !.pats = Append(@, p)] :
                        p \in {q \in Pats :
                                 /\ Len(q) > 0
                                 /\ nsrc * NumFolders(sh, l - 1) * Len(q) <= MaxLevelRows}} :
                   sh \in {x \in S : NumFolders(x, l - 1) > 0}},
            l + 1, D, nsrc)

Shapes(D, nsrc) ==
    ShapesFrom({sh \in [n0 : 1..MaxRoots, rootType : Types, pats : {<<>>}] :
                    nsrc * sh.n0 <= MaxLevelRows},
               1, D, nsrc)

\* a filtered level view keeps the children at some positions of the children list
FilteredTable(table, k, keep) ==
    [names |-> table.names,
     rows |-> SelectSeq(table.rows,
                 LAMBDA r : ((r[METADATA_CURRENT_ID] % k) + 1) \in keep)]

FilteredLevelViews(sh, D, levels) ==
    {EmptyDict} \cup
    {[l \in {lv} |-> FilteredTable(levels[lv + 1], Len(sh.pats[lv]), keep)] :
        <<lv, keep>> \in {x \in (1..D) \X SUBSET (1..MaxKids) :
                            /\ Len(sh.pats[x[1]]) > 0
                            /\ x[2] \subseteq 1..Len(sh.pats[x[1]])
                            /\ x[2] # 1..Len(sh.pats[x[1]])}}

InitialHeap(sh, nsrc) ==
    [o \in {"o_pit", "o_root", "o_field"} |->
        CASE o = "o_pit" -> [root |-> "o_root"]
          [] o = "o_root" -> [n |-> nsrc * sh.n0, type |-> sh.rootType]
          [] o = "o_field" -> [fields |-> "described"]]

InitialCollection ==
    [k \in {"id", PIT_SCHEMA_KEY, FIELD_SCHEMA_KEY} |->
        CASE k = "id" -> "ds"
          [] k = PIT_SCHEMA_KEY -> "o_pit"
          [] k = FIELD_SCHEMA_KEY -> "o_field"]

LevelsOf(kind, fmt, hasRel, D, sh) ==
    [l \in 1..(D + 1) |->
        LevelTable(ColumnsOf(fmt, ConcatColumn(kind), hasRel), fmt,
                   SourcesOf(kind, fmt), sh, l - 1)]

DatasetOf(kind, fmt, levels, view, random, root_n, flv, joins) ==
    [path |-> SourcesOf(kind, fmt)[1].path,
     levels |-> levels,
     max_depth |-> Len(levels) - 1,
     view |-> view,
     random |-> random,
     root_n |-> root_n,
     has_level1_joins |-> joins,
     filtered_level_views |-> flv,
     collection |-> InitialCollection]

EmptyFs == [dirs |-> {}, files |-> EmptyDict]

\* the filesystem without everything at or below path
Without(fsys, path) ==
    [dirs |-> {d \in fsys.dirs : ~IsPrefix(path, d)},
     files |-> [f \in {g \in DOMAIN fsys.files : ~IsPrefix(path, g)} |-> fsys.files[f]]]

\* what the filesystem holds at and below a path
Under(fsys, path) ==
    [dirs |-> {d \in fsys.dirs : IsPrefix(path, d)},
     files |-> [f \in {g \in DOMAIN fsys.files : IsPrefix(path, g)} |-> fsys.files[f]]]

\* a dataset stored at root in FOLDER form (section 6 of the format: COLLECTION.json,
\* METADATA/level<l>.parquet, DATA/<path> and DATA/<folder>/__meta__)
FolderOnDisk(ds, hp, root) ==
    LET levels == strip_zip_columns(ds)
        lm == build_local_metadata(levels)
        payload == {ds.levels[l].rows[i][METADATA_GDAL_VSI].path :
                        <<l, i>> \in {x \in (1..Len(ds.levels)) \X (1..MaxLevelRows) :
                            /\ x[2] <= Len(ds.levels[x[1]].rows)
                            /\ ds.levels[x[1]].rows[x[2]][COLUMN_TYPE] = SAMPLE_TYPE_FILE}}
        level_files == {Append(Append(root, FOLDER_METADATA_DIR), LevelFile(l - 1)) :
                            l \in 1..Len(levels)}
        meta_files == {Append(root \o k, FOLDER_META_FILENAME) : k \in DOMAIN lm}
        collection_file == Append(root, FOLDER_COLLECTION_FILENAME)
    IN  [dirs |-> {root, Append(root, FOLDER_METADATA_DIR), Append(root, FOLDER_DATA_DIR)}
                  \cup {root \o k : k \in DOMAIN lm},
         files |->
            [f \in payload \cup level_files \cup meta_files \cup {collection_file} |->
                IF f = collection_file THEN [json |-> TRUE, doc |-> JsonDumps(ds.collection, hp)]
                ELSE IF f \in level_files
                THEN [table |-> levels[CHOOSE l \in 1..Len(levels) :
                                    f[Len(f)] = LevelFile(l - 1)]]
                ELSE IF f \in meta_files THEN [table |-> lm[SubSeq(f, Len(root) + 1, Len(f) - 1)]]
                ELSE [bytes |-> f]]]

\* what can be missing from a folder on disk; no_deep_level: the file of the
\* deepest level is gone
Damages == {"none", "no_source", "no_collection", "bad_json", "no_metadata_dir",
            "no_levels", "no_deep_level", "bad_parquet", "no_data_dir", "no_data_files"}

Damaged(fsys, root, damage) ==
    LET md == Append(root, FOLDER_METADATA_DIR)
        dd == Append(root, FOLDER_DATA_DIR)
        cf == Append(root, FOLDER_COLLECTION_FILENAME)
    IN  CASE damage = "none" -> fsys
          [] damage = "no_source" -> Without(fsys, root)
          [] damage = "no_collection" -> Without(fsys, cf)
          [] damage = "bad_json" ->
                [fsys EXCEPT !.files = [@ EXCEPT ![cf] = [json |-> FALSE, doc |-> EmptyDict]]]
          [] damage = "no_metadata_dir" -> Without(fsys, md)
          [] damage = "no_levels" -> [Without(fsys, md) EXCEPT !.dirs = @ \cup {md}]
          [] damage = "no_deep_level" ->
                LET top == CHOOSE i \in 0..9 :
                        /\ Append(md, LevelFile(i)) \in DOMAIN fsys.files
                        /\ Append(md, LevelFile(i + 1)) \notin DOMAIN fsys.files
                IN  Without(fsys, Append(md, LevelFile(top)))
          [] damage = "bad_parquet" ->
                [fsys EXCEPT !.files = [@ EXCEPT ![Append(md, LevelFile(0))] =
                                            [bytes |-> <<"not a parquet file">>]]]
          [] damage = "no_data_dir" -> Without(fsys, dd)
          [] damage = "no_data_files" -> [Without(fsys, dd) EXCEPT !.dirs = @ \cup {dd}]

WithOutput(fsys, output, outExists) ==
    IF outExists THEN [fsys EXCEPT !.dirs = @ \cup {output}] ELSE fsys

NoWork == [tasks |-> <<>>, pending |-> {}, temp |-> <<>>]

InitWith(ds, hp, fsys, c) ==
    /\ dataset = ds
    /\ heap = hp
    /\ fs = fsys
    /\ call = c
    /\ pc = "call"
    /\ plan = NoPlan
    /\ err = ""
    /\ queries = [view_evals |-> 0, loads |-> 0, returned |-> <<>>]
    /\ work = NoWork
    /\ history = <<>>

AllRows(nsrc, sh) == 1..(nsrc * sh.n0)

\* plan_export on a view: plain (a filter on level 0), random (a sampling view),
\* flv (the view advertises a filtered level view), joins, and an existing output
ExportFeatures == {"plain", "random", "flv", "joins", "exists", "exists_joins"}

InitExport ==
    \E feature \in ExportFeatures, kind \in Kinds, fmt \in {"zip", "folder"},
       hasRel \in BOOLEAN, D \in 0..MaxDepth :
    /\ kind = "concat_same" => fmt = "zip" /\ hasRel
    /\ kind = "concat_distinct" => fmt = "folder" /\ hasRel
    /\ feature # "plain" => kind = "single" /\ fmt = "zip" /\ hasRel
    /\ feature \in {"joins", "exists", "exists_joins", "random"} => D <= 1
    /\ feature = "flv" => D <= 2
    /\ D >= 2 => (fmt = "zip") = hasRel
    /\ D >= 3 => kind = "single" /\ fmt = "zip"
    /\ LET nsrc == Len(SourcesOf(kind, fmt))
       IN  \E sh \in Shapes(D, nsrc) :
           LET levels == LevelsOf(kind, fmt, hasRel, D, sh)
           IN
           \E view \in SUBSET AllRows(nsrc, sh) :
           LET ds0 == DatasetOf(kind, fmt, levels, view, feature = "random", 0,
                                EmptyDict, feature \in {"joins", "exists_joins"})
           IN  /\ feature \in {"random", "flv"} => view # {}
               /\ \E flv \in (IF feature = "flv"
                               THEN FilteredLevelViews(sh, D, levels) \ {EmptyDict}
                               ELSE {EmptyDict}) :
                  \E root_n \in {Cardinality(m) : m \in ViewResults(ds0)} :
                    InitWith([ds0 EXCEPT !.root_n = root_n, !.filtered_level_views = flv],
                                InitialHeap(sh, nsrc),
                                WithOutput(EmptyFs, <<"out">>,
                                           feature \in {"exists", "exists_joins"}),
                                [op |-> "plan_export", output |-> <<"out">>, now |-> 1])

\* plan_zip2folder on the path of an archive (there or not), plan_folder2zip on
\* the path of a folder (complete or damaged)
InitZip2Folder ==
    \E hasRel \in BOOLEAN, D \in 0..MaxDepth, srcExists \in BOOLEAN, outExists \in BOOLEAN :
    /\ (~srcExists \/ outExists) => D <= 1
    /\ \E sh \in Shapes(D, 1) :
       LET ds == DatasetOf("single", "zip", LevelsOf("single", "zip", hasRel, D, sh),
                           AllRows(1, sh), FALSE, sh.n0, EmptyDict, FALSE)
           archive == [f \in (IF srcExists THEN {ds.path} ELSE {}) |-> [archive |-> TRUE]]
       IN  InitWith(ds, InitialHeap(sh, 1),
                    WithOutput([EmptyFs EXCEPT !.files = archive], <<"out">>, outExists),
                    [op |-> "plan_zip2folder", source |-> ds.path, output |-> <<"out">>,
                     now |-> 1])

InitFolder2Zip ==
    \E hasRel \in BOOLEAN, D \in 0..MaxDepth, damage \in Damages, outExists \in BOOLEAN :
    /\ (damage # "none" \/ outExists) => D <= 1
    /\ \E sh \in Shapes(D, 1) :
       LET ds == DatasetOf("single", "folder", LevelsOf("single", "folder", hasRel, D, sh),
                           AllRows(1, sh), FALSE, sh.n0, EmptyDict, FALSE)
           hp == InitialHeap(sh, 1)
       IN  InitWith(ds, hp,
                    WithOutput(Damaged(FolderOnDisk(ds, hp, ds.path), ds.path, damage),
                               <<"out.tacozip">>, outExists),
                    [op |-> "plan_folder2zip", source |-> ds.path,
                     output |-> <<"out.tacozip">>, now |-> 1])

Init == InitExport \/ InitZip2Folder \/ InitFolder2Zip

\* a planner that creates the output directory of the plan it returns
Returns_creating_output(r) ==
    /\ plan' = r.plan
    /\ err' = r.err
    /\ heap' = r.heap
    /\ queries' = r.queries
    /\ pc' = IF r.err = "" THEN "planned" ELSE "failed"
    /\ fs' = IF r.err = "" THEN [fs EXCEPT !.dirs = @ \cup {call.output}] ELSE fs
    /\ UNCHANGED <<dataset, call, work, history>>

\* the outcome r of a planning call becomes the state
Returns(r) ==
    /\ plan' = r.plan
    /\ err' = r.err
    /\ heap' = r.heap
    /\ queries' = r.queries
    /\ pc' = IF r.err = "" THEN "planned" ELSE "failed"
    /\ UNCHANGED <<dataset, fs, call, work, history>>

PlanExport ==
    /\ pc = "call"
    /\ call.op = "plan_export"
    /\ \E results \in [(queries.view_evals + 1)..(queries.view_evals + 2) -> ViewResults(dataset)] :
        Returns(plan_export(dataset, heap, fs, call.output, results, call.now, queries))

PlanZip2Folder ==
    /\ pc = "call"
    /\ call.op = "plan_zip2folder"
    /\ \E results \in [(queries.view_evals + 1)..(queries.view_evals + 2) -> ViewResults(dataset)] :
        Returns(plan_zip2folder(dataset, heap, fs, call.source, call.output, results, queries))

PlanFolder2Zip ==
    /\ pc = "call"
    /\ call.op = "plan_folder2zip"
    /\ Returns(plan_folder2zip(heap, fs, call.source, call.output, queries))

Next == PlanExport \/ PlanZip2Folder \/ PlanFolder2Zip

Spec == Init /\ [][Next]_vars

\* the caller keeps the plan it was given and calls the same function again, later,
\* with the same arguments and nothing executed in between
PlanAgain ==
    /\ pc = "planned"
    /\ Len(history) + 1 < MaxCalls
    /\ history' = Append(history, [plan |-> plan, doc |-> JsonDumps(plan.collection, heap)])
    /\ call' = [call EXCEPT !.now = @ + 1]
    /\ pc' = "call"
    /\ plan' = NoPlan
    /\ UNCHANGED <<dataset, heap, fs, err, queries, work>>

NextRepeat == Next \/ PlanAgain

SpecRepeat == Init /\ [][NextRepeat]_vars

-----------------------------------------------------------------------------
(* src/tacobridge/execute.py, finalize.py and api.py: the high-level calls   *)

\* file names of the model: Path.suffix and Path.stem
PathSuffix(name) ==
    CASE name = "out.tacozip" -> ".tacozip"
      [] name = "a.tacozip" -> ".tacozip"
      [] name = "b.tacozip" -> ".tacozip"
      [] OTHER -> ""

PathStem(name) ==
    CASE name = "out.tacozip" -> "out"
      [] name = "a.tacozip" -> "a"
      [] name = "b.tacozip" -> "b"
      [] OTHER -> name

TACOZIP_EXTENSIONS == {".tacozip"}

\* Path.with_suffix("") and Path.parent
WithoutSuffix(path) == Append(SubSeq(path, 1, Len(path) - 1), PathStem(path[Len(path)]))
Parent(path) == SubSeq(path, 1, Len(path) - 1)

\* TEMP_FOLDER_TEMPLATE.format(stem)
TempFolderName(stem) == "." \o stem \o "_temp"

\* is_remote(str(source)): the sources below the remote root
RemoteRoot == "/vsis3"
is_remote(path) == path # <<>> /\ path[1] = RemoteRoot

\* mkdir(parents=True, exist_ok=True) and write_bytes / write_text / write_parquet
MkdirP(fsys, path) ==
    [fsys EXCEPT !.dirs = @ \cup {SubSeq(path, 1, k) : k \in 1..Len(path)}]

WriteFile(fsys, path, content) ==
    [fsys EXCEPT !.files = DictUpdate(@, [k \in {path} |-> content])]

\* shutil.rmtree
RmTree(fsys, path) == Without(fsys, path)

\* _detect_format
detect_format(output) ==
    IF PathSuffix(output[Len(output)]) \in TACOZIP_EXTENSIONS THEN "zip" ELSE "folder"

\* _create_temp_path; temp_dir is <<>> for None
create_temp_path(output, temp_dir) ==
    Append(IF temp_dir = <<>> THEN Parent(output) ELSE temp_dir,
           TempFolderName(PathStem(output[Len(output)])))

\* _relocate_plan: dest moves from below plan.output to below temp_folder
relocate_plan(p, temp_folder) ==
    [p EXCEPT !.tasks = [i \in DOMAIN p.tasks |->
                            [p.tasks[i] EXCEPT !.dest =
                                temp_folder \o SubSeq(@, Len(p.output) + 1, Len(@))]],
              !.output = temp_folder]

Min(a, b) == IF a <= b THEN a ELSE b

\* _read_local: seek(offset) when an offset is given, then read(size) when a size
\* is given and read() to the end otherwise; reading past the end gives what is there
read_local(content, offset, size) ==
    LET start == IF offset # <<>> THEN offset[1] ELSE 0
        rest == SubSeq(content, start + 1, Len(content))
    IN  IF size # <<>> THEN SubSeq(rest, 1, Min(size[1], Len(rest))) ELSE rest

\* _read_remote: download_range(src, offset, size) when both are given, else
\* download_bytes(src).  The results it can have: a range that reaches past the
\* end of the object is answered by the store with the bytes there are or with an
\* error
read_remote(content, offset, size) ==
    IF offset # <<>> /\ size # <<>>
    THEN IF offset[1] + size[1] <= Len(content)
         THEN {[err |-> "", data |-> SubSeq(content, offset[1] + 1, offset[1] + size[1])]}
         ELSE {[err |-> "", data |-> read_local(content, offset, size)],
               [err |-> "range not satisfiable", data |-> <<>>]}
    ELSE {[err |-> "", data |-> content]}

\* _read_bytes: what reading the source of a task can give.  The bytes of an
\* archive are not spelled out: a member is named by its place <<src, offset, size>>
ReadBytes(fsys, task) ==
    IF task.src \notin DOMAIN fsys.files
    THEN {[err |-> "No such file", data |-> <<>>]}
    ELSE LET f == fsys.files[task.src]
         IN  IF "archive" \in DOMAIN f
             THEN {[err |-> "", data |-> IF task.offset # <<>>
                                          THEN <<task.src, task.offset[1], task.size[1]>>
                                          ELSE f]}
             ELSE IF is_remote(task.src) THEN read_remote(f.bytes, task.offset, task.size)
             ELSE {[err |-> "", data |-> read_local(f.bytes, task.offset, task.size)]}

\* a _write_bytes that opens the destination for appending
write_bytes_appending(fsys, dest, data, disk_full) ==
    IF \E k \in 1..(Len(dest) - 1) : SubSeq(dest, 1, k) \in DOMAIN fsys.files
    THEN [err |-> "NotADirectoryError", fs |-> fsys]
    ELSE LET made == MkdirP(fsys, Parent(dest))
             old == IF dest \in DOMAIN fsys.files THEN fsys.files[dest].bytes ELSE <<>>
         IN  IF dest \in fsys.dirs THEN [err |-> "IsADirectoryError", fs |-> made]
             ELSE IF disk_full
             THEN [err |-> "No space left on device", fs |-> WriteFile(made, dest, [bytes |-> old])]
             ELSE [err |-> "", fs |-> WriteFile(made, dest, [bytes |-> old \o data])]

\* _write_bytes: mkdir(parents=True, exist_ok=True) of the parent, then write_bytes,
\* which truncates the destination and writes; outcome [err, fs].  disk_full: the
\* device has no room for the data
write_bytes(fsys, dest, data, disk_full) ==
    IF \E k \in 1..(Len(dest) - 1) : SubSeq(dest, 1, k) \in DOMAIN fsys.files
    THEN [err |-> "NotADirectoryError", fs |-> fsys]
    ELSE LET made == MkdirP(fsys, Parent(dest))
         IN  IF dest \in fsys.dirs THEN [err |-> "IsADirectoryError", fs |-> made]
             ELSE IF disk_full
             THEN [err |-> "No space left on device", fs |-> WriteFile(made, dest, [bytes |-> <<>>])]
             ELSE [err |-> "", fs |-> WriteFile(made, dest, [bytes |-> data])]

\* an execute that opens the destination before it reads the source
execute_opening_dest_first(fsys, task, read, disk_full) ==
    LET opened == write_bytes(fsys, task.dest, <<>>, FALSE)
        w == write_bytes(fsys, task.dest, read.data, disk_full)
    IN  IF read.err # "" THEN [err |-> "ExecuteError: Failed", fs |-> opened.fs]
        ELSE [err |-> IF w.err = "" THEN "" ELSE "ExecuteError: Failed", fs |-> w.fs]

\* execute(task) when reading gives read (one of ReadBytes): outcome [err, fs];
\* every exception leaves as TacoExecuteError
execute(fsys, task, read, disk_full) ==
    IF read.err # "" THEN [err |-> "ExecuteError: Failed", fs |-> fsys]
    ELSE LET w == write_bytes(fsys, task.dest, read.data, disk_full)
         IN  [err |-> IF w.err = "" THEN "" ELSE "ExecuteError: Failed", fs |-> w.fs]

\* _execute_tasks with workers <= 1: the tasks in plan order, up to the first
\* failure; outcome [err, fs]
RECURSIVE execute_tasks_in_order(_, _, _)
execute_tasks_in_order(fsys, tasks, i) ==
    IF i > Len(tasks) THEN [err |-> "", fs |-> fsys]
    ELSE LET read == CHOOSE x \in ReadBytes(fsys, tasks[i]) : TRUE
             r == execute(fsys, tasks[i], read, FALSE)
         IN  IF r.err # "" THEN r ELSE execute_tasks_in_order(r.fs, tasks, i + 1)

\* level files numbered from 1
WriteLevels_numbered_from_one(fsys, output, levels) ==
    LET metadata_dir == Append(output, FOLDER_METADATA_DIR)
        made == MkdirP(fsys, metadata_dir)
    IN  [made EXCEPT !.files =
            DictUpdate(@, [f \in {Append(metadata_dir, LevelFile(i)) : i \in DOMAIN levels} |->
                [table |-> levels[CHOOSE i \in DOMAIN levels :
                                     f = Append(metadata_dir, LevelFile(i))]]])]

\* the three loops of _finalize_to_folder / the tail of _zip2folder_local
WriteLevels(fsys, output, levels) ==
    LET metadata_dir == Append(output, FOLDER_METADATA_DIR)
        made == MkdirP(fsys, metadata_dir)
    IN  [made EXCEPT !.files =
            DictUpdate(@, [f \in {Append(metadata_dir, LevelFile(i - 1)) : i \in DOMAIN levels} |->
                [table |-> levels[CHOOSE i \in DOMAIN levels :
                                     f = Append(metadata_dir, LevelFile(i - 1))]]])]

\* also _write_local_metadata
WriteLocalMetadata(fsys, output, local_metadata) ==
    [dirs |-> fsys.dirs \cup
                UNION {MkdirP(fsys, output \o k).dirs : k \in DOMAIN local_metadata},
     files |-> DictUpdate(fsys.files,
                [f \in {Append(output \o k, FOLDER_META_FILENAME) : k \in DOMAIN local_metadata} |->
                    [table |-> local_metadata[SubSeq(f, Len(output) + 1, Len(f) - 1)]]])]

WriteCollection(fsys, output, collection, hp) ==
    WriteFile(fsys, Append(output, FOLDER_COLLECTION_FILENAME),
              [json |-> TRUE, doc |-> JsonDumps(collection, hp)])

\* _finalize_to_folder as a whole
finalize_to_folder(fsys, p, hp) ==
    WriteCollection(
        WriteLocalMetadata(WriteLevels(fsys, p.output, p.levels), p.output, p.local_metadata),
        p.output, p.collection, hp)

\* zip2folder, lines 117-119 (the path a remote source takes): plan_zip2folder,
\* the tasks one after the other, finalize; outcome [err, fs].  The view of a
\* freshly loaded archive returns all its rows
zip2folder_planned(ds, hp, fsys, source, output) ==
    LET q == [view_evals |-> 0, loads |-> 0, returned |-> <<>>]
        r == plan_zip2folder(ds, hp, fsys, source, output, [k \in 1..2 |-> ds.view], q)
        x == execute_tasks_in_order(fsys, r.plan.tasks, 1)
    IN  IF r.err # "" THEN [err |-> r.err, fs |-> fsys]
        ELSE IF x.err # "" THEN x
        ELSE [err |-> "", fs |-> finalize_to_folder(x.fs, r.plan, r.heap)]

\* ZipWriter(output_path).create_complete_zip(src_files, arc_files, metadata_package):
\* the archive written at output
ArchiveOf(fsys, src_files, arc_files, p, hp) ==
    [archive |-> TRUE,
     members |-> [a \in Range(arc_files) |->
                    fsys.files[src_files[CHOOSE i \in DOMAIN arc_files : arc_files[i] = a]]],
     levels |-> p.levels,
     local_metadata |-> p.local_metadata,
     collection |-> JsonDumps(p.collection, hp)]

\* the member paths of the DATA/ tree of the archive a dataset is stored in: one
\* per FILE row, at DATA/<ancestor ids>/<id>
RECURSIVE MemberPath(_, _, _)
MemberPath(ds, l, row) ==
    IF l = 0 THEN <<row[COLUMN_ID]>>
    ELSE LET up == CHOOSE r \in Range(LevelView(ds, l - 1).rows) :
                        r[METADATA_CURRENT_ID] = row[METADATA_PARENT_ID]
         IN  Append(MemberPath(ds, l - 1, up), row[COLUMN_ID])

DataMembers(ds) ==
    {[path |-> <<FOLDER_DATA_DIR>> \o MemberPath(ds, l, row), vsi |-> row[METADATA_GDAL_VSI]] :
        <<l, row>> \in UNION {{l} \X {r \in Range(LevelView(ds, l).rows) :
                                        r[COLUMN_TYPE] = SAMPLE_TYPE_FILE} : l \in 0..ds.max_depth}}

\* the stages of a call: what runs after the tasks
StageAfterTasks(c) ==
    IF c.op = "export" /\ detect_format(c.output) = "zip" THEN "temp_metadata"
    ELSE "finalize_levels"

\* where an exception raised inside the try of _export_to_zip goes: through its
\* finally when there is a temporary folder
Raised == IF work.temp # <<>> THEN "cleanup" ELSE "failed"

\* the failure the environment holds for the call: none, or a failing write of a
\* transfer, of the level files, of the __meta__ files, of COLLECTION.json, or a
\* failing archive writer
Faults == {"none", "task", "levels", "local_metadata", "collection", "writer"}

\* export(dataset, output) with output_format = "auto", up to the call of
\* _execute_tasks; for the ZIP format also lines 160-163 of _export_to_zip
Export ==
    /\ pc = "call"
    /\ call.op = "export"
    /\ \E results \in [(queries.view_evals + 1)..(queries.view_evals + 2) -> ViewResults(dataset)] :
        LET zip == detect_format(call.output) = "zip"
            r == plan_export(dataset, heap, fs,
                             IF zip THEN WithoutSuffix(call.output) ELSE call.output,
                             results, call.now, queries)
            temp_folder == create_temp_path(call.output, call.temp_dir)
            run == IF zip THEN relocate_plan(r.plan, temp_folder) ELSE r.plan
        IN  /\ plan' = r.plan
            /\ err' = r.err
            /\ heap' = r.heap
            /\ queries' = r.queries
            /\ IF r.err # ""
               THEN pc' = "failed" /\ work' = work /\ history' = <<"plan">>
               ELSE /\ pc' = "executing"
                    /\ work' = [tasks |-> run.tasks, pending |-> DOMAIN run.tasks,
                                temp |-> IF zip THEN temp_folder ELSE <<>>]
                    /\ history' = <<"plan", "execute">>
    /\ UNCHANGED <<dataset, fs, call>>

\* zip2folder(source, output) for a remote source: plan_zip2folder
Zip2FolderRemote ==
    /\ pc = "call"
    /\ call.op = "zip2folder"
    /\ is_remote(call.source)
    /\ \E results \in [(queries.view_evals + 1)..(queries.view_evals + 2) -> ViewResults(dataset)] :
        LET r == plan_zip2folder(dataset, heap, fs, call.source, call.output, results, queries)
        IN  /\ plan' = r.plan
            /\ err' = r.err
            /\ heap' = r.heap
            /\ queries' = r.queries
            /\ IF r.err # ""
               THEN pc' = "failed" /\ work' = work /\ history' = <<"plan">>
               ELSE /\ pc' = "executing"
                    /\ work' = [tasks |-> r.plan.tasks, pending |-> DOMAIN r.plan.tasks,
                                temp |-> <<>>]
                    /\ history' = <<"plan", "execute">>
    /\ UNCHANGED <<dataset, fs, call>>

\* zip2folder(source, output) for a local source: _zip2folder_local, lines 240-250:
\* the archive is loaded, the metadata prepared, the output directory made
Zip2FolderLocal ==
    /\ pc = "call"
    /\ call.op = "zip2folder"
    /\ ~is_remote(call.source)
    /\ queries' = [queries EXCEPT !.loads = @ + 1]
    /\ UNCHANGED <<dataset, heap, call, plan>>
    /\ IF ~Loadable(fs, call.source)
       THEN /\ err' = "ReaderError: cannot load"
            /\ pc' = "failed"
            /\ history' = <<"plan">>
            /\ UNCHANGED <<fs, work>>
       ELSE IF call.output \in DOMAIN fs.files
       THEN /\ err' = "FileExistsError"
            /\ pc' = "failed"
            /\ history' = <<"plan">>
            /\ UNCHANGED <<fs, work>>
       ELSE LET levels == strip_zip_columns(dataset)
            IN  /\ fs' = MkdirP(fs, call.output)
                /\ work' = [tasks |-> <<>>, pending |-> DataMembers(dataset), temp |-> <<>>,
                            levels |-> levels,
                            local_metadata |-> build_local_metadata(levels),
                            collection |-> dataset.collection]
                /\ err' = ""
                /\ pc' = "extracting"
                /\ history' = <<"plan", "execute">>

\* lines 252-254: zf.extract(member, output), one member after the other
ExtractMember ==
    /\ pc = "extracting"
    /\ work.pending # {}
    /\ LET m == CHOOSE x \in work.pending : TRUE
           dest == call.output \o m.path
       IN  \E fails \in (IF call.fault = "task" THEN BOOLEAN ELSE {FALSE}) :
           IF fails
           THEN /\ err' = "OSError: cannot extract member"
                /\ pc' = "failed"
                /\ fs' = MkdirP(fs, Parent(dest))
                /\ work' = work
           ELSE /\ fs' = WriteFile(MkdirP(fs, Parent(dest)), dest,
                                   [bytes |-> <<m.vsi.path, m.vsi.offset, m.vsi.size>>])
                /\ work' = [work EXCEPT !.pending = @ \ {m}]
                /\ UNCHANGED <<err, pc>>
    /\ UNCHANGED <<dataset, heap, call, plan, queries, history>>

ExtractDone ==
    /\ pc = "extracting"
    /\ work.pending = {}
    /\ pc' = "local_levels"
    /\ history' = Append(history, "finalize")
    /\ UNCHANGED <<dataset, heap, fs, call, plan, err, queries, work>>

\* lines 256-260
LocalLevels ==
    /\ pc = "local_levels"
    /\ IF call.fault = "levels"
       THEN /\ fs' = MkdirP(fs, Append(call.output, FOLDER_METADATA_DIR))
            /\ err' = "OSError: No space left on device"
            /\ pc' = "failed"
       ELSE /\ fs' = WriteLevels(fs, call.output, work.levels)
            /\ pc' = "local_metadata"
            /\ err' = err
    /\ UNCHANGED <<dataset, heap, call, plan, queries, work, history>>

\* lines 262-265
LocalMetadata ==
    /\ pc = "local_metadata"
    /\ IF call.fault = "local_metadata" /\ DOMAIN work.local_metadata # {}
       THEN /\ fs' = fs
            /\ err' = "OSError: No space left on device"
            /\ pc' = "failed"
       ELSE /\ fs' = WriteLocalMetadata(fs, call.output, work.local_metadata)
            /\ pc' = "local_collection"
            /\ err' = err
    /\ UNCHANGED <<dataset, heap, call, plan, queries, work, history>>

\* lines 267-274
LocalCollection ==
    /\ pc = "local_collection"
    /\ IF call.fault = "collection"
       THEN /\ fs' = fs
            /\ err' = "OSError: No space left on device"
            /\ pc' = "failed"
       ELSE /\ fs' = WriteCollection(fs, call.output, work.collection, heap)
            /\ pc' = "done"
            /\ err' = err
    /\ UNCHANGED <<dataset, heap, call, plan, queries, work, history>>

\* folder2zip(source, output): plan_folder2zip, then finalize is called
Folder2Zip ==
    /\ pc = "call"
    /\ call.op = "folder2zip"
    /\ LET r == plan_folder2zip(heap, fs, call.source, call.output, queries)
       IN  /\ plan' = r.plan
           /\ err' = r.err
           /\ heap' = r.heap
           /\ queries' = r.queries
           /\ pc' = IF r.err # "" THEN "failed" ELSE "packaging"
           /\ history' = IF r.err # "" THEN <<"plan">> ELSE <<"plan", "finalize">>
    /\ UNCHANGED <<dataset, fs, call, work>>

\* _execute_tasks: execute(task) on one task.  workers <= 1: the tasks run in
\* order and the first failure is raised at once.  workers > 1: every task is
\* submitted to the pool and runs, in any order; the first failure is raised by
\* future.result() and leaves _execute_tasks when the pool has shut down, that is
\* when the other tasks have run too
ExecuteTask ==
    /\ pc = "executing"
    /\ work.pending # {}
    /\ \E i \in work.pending : \E read \in ReadBytes(fs, work.tasks[i]) :
       \E disk_full \in (IF call.fault = "task" THEN BOOLEAN ELSE {FALSE}) :
        LET r == execute(fs, work.tasks[i], read, disk_full)
        IN  /\ call.workers <= 1 => \A j \in work.pending : i <= j
            /\ fs' = r.fs
            /\ work' = [work EXCEPT !.pending = @ \ {i}]
            /\ err' = IF err # "" THEN err ELSE r.err
            /\ pc' = IF r.err = "" \/ call.workers > 1 THEN "executing" ELSE Raised
    /\ UNCHANGED <<dataset, heap, call, plan, queries, history>>

\* an _execute_tasks that returns normally whatever the tasks did
TasksDone_ignoring_failures ==
    /\ pc = "executing"
    /\ work.pending = {}
    /\ pc' = StageAfterTasks(call)
    /\ history' = Append(history, "finalize")
    /\ UNCHANGED <<dataset, heap, fs, call, plan, err, queries, work>>

\* _execute_tasks is left: with the failure of a task when there was one, else
\* normally, and the stage after the tasks begins
TasksDone ==
    /\ pc = "executing"
    /\ work.pending = {}
    /\ IF err # ""
       THEN pc' = Raised /\ history' = history
       ELSE pc' = StageAfterTasks(call) /\ history' = Append(history, "finalize")
    /\ UNCHANGED <<dataset, heap, fs, call, plan, err, queries, work>>

\* a _finalize_to_folder that writes COLLECTION.json before the level files
FinalizeLevels_collection_first ==
    /\ pc = "finalize_levels"
    /\ IF call.fault = "levels"
       THEN /\ fs' = WriteCollection(MkdirP(fs, Append(plan.output, FOLDER_METADATA_DIR)),
                                     plan.output, plan.collection, heap)
            /\ err' = "FinalizeError: Failed to finalize"
            /\ pc' = "failed"
       ELSE /\ fs' = WriteLevels(WriteCollection(MkdirP(fs, plan.output), plan.output,
                                                 plan.collection, heap),
                                 plan.output, plan.levels)
            /\ pc' = "finalize_local"
            /\ err' = err
    /\ UNCHANGED <<dataset, heap, call, plan, queries, work, history>>

\* finalize(plan), lines 49-56: an exception of _finalize_to_folder leaves as
\* TacoFinalizeError
\* _finalize_to_folder, lines 61-68
FinalizeLevels ==
    /\ pc = "finalize_levels"
    /\ IF call.fault = "levels"
       THEN /\ fs' = MkdirP(fs, Append(plan.output, FOLDER_METADATA_DIR))
            /\ err' = "FinalizeError: Failed to finalize"
            /\ pc' = "failed"
       ELSE /\ fs' = WriteLevels(fs, plan.output, plan.levels)
            /\ pc' = "finalize_local"
            /\ err' = err
    /\ UNCHANGED <<dataset, heap, call, plan, queries, work, history>>

\* lines 70-74
FinalizeLocalMetadata ==
    /\ pc = "finalize_local"
    /\ IF call.fault = "local_metadata" /\ DOMAIN plan.local_metadata # {}
       THEN /\ fs' = fs
            /\ err' = "FinalizeError: Failed to finalize"
            /\ pc' = "failed"
       ELSE /\ fs' = WriteLocalMetadata(fs, plan.output, plan.local_metadata)
            /\ pc' = "finalize_collection"
            /\ err' = err
    /\ UNCHANGED <<dataset, heap, call, plan, queries, work, history>>

\* lines 76-84; work.result is the value returned
FinalizeCollection ==
    /\ pc = "finalize_collection"
    /\ IF call.fault = "collection"
       THEN /\ fs' = fs
            /\ err' = "FinalizeError: Failed to finalize"
            /\ pc' = "failed"
            /\ work' = work
       ELSE /\ fs' = WriteCollection(fs, plan.output, plan.collection, heap)
            /\ pc' = "done"
            /\ err' = err
            /\ work' = [result |-> plan.output] @@ work
    /\ UNCHANGED <<dataset, heap, call, plan, queries, history>>

\* _export_to_zip line 165: _write_local_metadata(plan.local_metadata, temp_folder)
WriteTempMetadata ==
    /\ pc = "temp_metadata"
    /\ IF call.fault = "local_metadata" /\ DOMAIN plan.local_metadata # {}
       THEN /\ fs' = fs
            /\ err' = "OSError: No space left on device"
            /\ pc' = "cleanup"
       ELSE /\ fs' = WriteLocalMetadata(fs, work.temp, plan.local_metadata)
            /\ pc' = "packaging"
            /\ err' = err
    /\ UNCHANGED <<dataset, heap, call, plan, queries, work, history>>

\* _export_to_zip line 166: _package_to_zip.  The archive writer on an output path
\* that exists is outside this code: it replaces the file or it raises
PackageToZip ==
    /\ pc = "packaging"
    /\ call.op = "export"
    /\ LET data_dir == Append(work.temp, FOLDER_DATA_DIR)
           found == WalkOrder({f \in DOMAIN fs.files :
                                  IsPrefix(data_dir, f) /\ f[Len(f)] # FOLDER_META_FILENAME})
           arc_files == [i \in DOMAIN found |->
                            <<FOLDER_DATA_DIR>> \o SubSeq(found[i], Len(data_dir) + 1, Len(found[i]))]
       IN  \E replaces \in BOOLEAN :
             /\ ~Exists(fs, call.output) => replaces
             /\ IF call.fault = "writer"
                THEN fs' = fs /\ err' = "ZipWriterError: cannot write"
                ELSE IF replaces
                THEN /\ fs' = WriteFile(fs, call.output,
                                        ArchiveOf(fs, found, arc_files, plan, heap))
                     /\ err' = ""
                ELSE /\ fs' = fs
                     /\ err' = "ZipWriterError: output exists"
    /\ pc' = "cleanup"
    /\ UNCHANGED <<dataset, heap, call, plan, queries, work, history>>

\* a finally that removes the temporary folder only when the export succeeded
Cleanup_on_success_only ==
    /\ pc = "cleanup"
    /\ fs' = IF err = "" THEN RmTree(fs, work.temp) ELSE fs
    /\ pc' = IF err = "" THEN "done" ELSE "failed"
    /\ UNCHANGED <<dataset, heap, call, plan, err, queries, work, history>>

\* the finally of _export_to_zip
Cleanup ==
    /\ pc = "cleanup"
    /\ fs' = RmTree(fs, work.temp)
    /\ pc' = IF err = "" THEN "done" ELSE "failed"
    /\ UNCHANGED <<dataset, heap, call, plan, err, queries, work, history>>

\* finalize(plan) of a Folder2ZipPlan: _finalize_folder2zip; an exception of the
\* archive writer leaves as TacoFinalizeError
FinalizeFolder2Zip ==
    /\ pc = "packaging"
    /\ call.op = "folder2zip"
    /\ IF call.fault = "writer"
       THEN /\ fs' = fs
            /\ err' = "FinalizeError: Failed to finalize"
            /\ pc' = "failed"
       ELSE /\ fs' = WriteFile(fs, plan.output,
                        ArchiveOf(fs, [i \in DOMAIN plan.entries |-> plan.entries[i].src],
                                  [i \in DOMAIN plan.entries |-> plan.entries[i].arc_path],
                                  plan, heap))
            /\ pc' = "done"
            /\ err' = err
    /\ UNCHANGED <<dataset, heap, call, plan, queries, work, history>>

\* what is at the output path before the call: nothing, a directory holding a
\* file, or a file
OutputStates == {"absent", "dir", "file"}

Occupied(fsys, path, state) ==
    CASE state = "absent" -> fsys
      [] state = "dir" -> WriteFile(MkdirP(fsys, path), Append(path, "old"), [bytes |-> "old"])
      [] state = "file" -> WriteFile(fsys, path, [bytes |-> "old"])

\* the archive a dataset is stored in
ArchiveOnDisk(ds) == [f \in {ds.path} |-> [archive |-> TRUE]]

\* the same archive at a remote address: its path and the paths in
\* internal:gdal_vsi start at the remote root
AtRemote(ds) ==
    [ds EXCEPT !.path = <<RemoteRoot>> \o @,
               !.levels = [l \in DOMAIN @ |->
                    [@[l] EXCEPT !.rows = [i \in DOMAIN @ |->
                        [@[i] EXCEPT ![METADATA_GDAL_VSI].path = <<RemoteRoot>> \o @]]]]]

\* workers = 1 runs the tasks in the caller's thread, workers > 1 in a pool
Workers == {1, 2}

InitCall(ds, hp, fsys, c) == InitWith(ds, hp, fsys, c @@ [before |-> fsys, now |-> 1])

\* what is at the path of the temporary folder before the call: nothing, or a
\* folder with a file under DATA/ that something else left there
TempStates == {"absent", "stale"}

TempOccupied(fsys, temp_folder, state) ==
    IF state = "stale"
    THEN WriteFile(MkdirP(fsys, Append(temp_folder, FOLDER_DATA_DIR)),
                   temp_folder \o <<FOLDER_DATA_DIR, "stale">>, [bytes |-> "old"])
    ELSE fsys

\* export of a view of a local archive to out (FOLDER) or out.tacozip (ZIP); out
\* and out.tacozip are there or not
InitApiExport ==
    \E D \in 0..1, hasRel \in BOOLEAN, srcExists \in BOOLEAN,
       output \in {<<"out">>, <<"out.tacozip">>},
       folderState \in {"absent", "dir"}, zipState \in {"absent", "file"},
       workers \in Workers, fault \in Faults, temp_dir \in {<<>>, <<"tmp">>},
       tempState \in TempStates :
    /\ output = <<"out">> => zipState = "absent" /\ temp_dir = <<>> /\ tempState = "absent"
    /\ tempState # "absent"
            => /\ srcExists /\ hasRel /\ folderState = "absent" /\ zipState = "absent"
               /\ workers = 1 /\ fault \in {"none", "writer"}
    /\ (fault # "none" \/ temp_dir # <<>>)
            => srcExists /\ hasRel /\ folderState = "absent" /\ zipState = "absent"
    /\ workers > 1 => fault \in {"none", "task"} /\ (hasRel \/ fault = "none")
                        /\ zipState = "absent"
    /\ \E sh \in Shapes(D, 1) :
       \E view \in SUBSET AllRows(1, sh) :
       LET ds == DatasetOf("single", "zip", LevelsOf("single", "zip", hasRel, D, sh),
                           view, FALSE, Cardinality(view), EmptyDict, FALSE)
           stored == [EmptyFs EXCEPT !.files = IF srcExists THEN ArchiveOnDisk(ds) ELSE EmptyDict]
       IN  InitCall(ds, InitialHeap(sh, 1),
                    TempOccupied(Occupied(Occupied(stored, <<"out">>, folderState),
                                          <<"out.tacozip">>, zipState),
                                 create_temp_path(output, temp_dir), tempState),
                    [op |-> "export", output |-> output, workers |-> workers,
                     fault |-> fault, temp_dir |-> temp_dir])

\* zip2folder of a local or a remote archive
InitApiZip2Folder ==
    \E D \in 0..1, hasRel \in BOOLEAN, srcExists \in BOOLEAN, remote \in BOOLEAN,
       outState \in OutputStates, workers \in Workers, fault \in Faults \ {"writer"} :
    /\ fault # "none" => srcExists /\ hasRel /\ outState = "absent"
    /\ workers > 1 => remote /\ fault \in {"none", "task"} /\ (hasRel \/ fault = "none")
                        /\ outState = "absent"
    /\ \E sh \in Shapes(D, 1) :
       LET levels == LevelsOf("single", "zip", hasRel, D, sh)
           ds0 == DatasetOf("single", "zip", levels, AllRows(1, sh), FALSE, sh.n0,
                            EmptyDict, FALSE)
           ds == IF remote THEN AtRemote(ds0) ELSE ds0
           stored == [EmptyFs EXCEPT !.files = IF srcExists THEN ArchiveOnDisk(ds) ELSE EmptyDict]
       IN  InitCall(ds, InitialHeap(sh, 1), Occupied(stored, <<"out">>, outState),
                    [op |-> "zip2folder", source |-> ds.path, output |-> <<"out">>,
                     workers |-> workers, fault |-> fault])

InitApiFolder2Zip ==
    \E D \in 0..1, hasRel \in BOOLEAN,
       damage \in {"none", "no_source", "no_collection", "bad_parquet"},
       outState \in {"absent", "file"}, fault \in {"none", "writer"} :
    /\ fault # "none" => damage = "none" /\ outState = "absent"
    /\ \E sh \in Shapes(D, 1) :
       LET ds == DatasetOf("single", "folder", LevelsOf("single", "folder", hasRel, D, sh),
                           AllRows(1, sh), FALSE, sh.n0, EmptyDict, FALSE)
           hp == InitialHeap(sh, 1)
       IN  InitCall(ds, hp,
                    Occupied(Damaged(FolderOnDisk(ds, hp, ds.path), ds.path, damage),
                             <<"out.tacozip">>, outState),
                    [op |-> "folder2zip", source |-> ds.path, output |-> <<"out.tacozip">>,
                     workers |-> 1, fault |-> fault])

InitApi == InitApiExport \/ InitApiZip2Folder \/ InitApiFolder2Zip

NextApi ==
    \/ Export
    \/ Zip2FolderRemote
    \/ Zip2FolderLocal
    \/ ExtractMember
    \/ ExtractDone
    \/ LocalLevels
    \/ LocalMetadata
    \/ LocalCollection
    \/ Folder2Zip
    \/ ExecuteTask
    \/ TasksDone
    \/ FinalizeLevels
    \/ FinalizeLocalMetadata
    \/ FinalizeCollection
    \/ WriteTempMetadata
    \/ PackageToZip
    \/ Cleanup
    \/ FinalizeFolder2Zip

SpecApi == InitApi /\ [][NextApi]_vars

-----------------------------------------------------------------------------
(* zip2folder, then folder2zip on the folder it returned                     *)

BackArchive == <<"back.tacozip">>

\* folder2zip(folder, "back.tacozip") where folder is what zip2folder returned;
\* the call remembers the zip2folder call before it
ThenFolder2Zip ==
    /\ pc = "done"
    /\ call.op = "zip2folder"
    /\ \E fault \in {"none", "writer"} :
        call' = [op |-> "folder2zip", source |-> call.output, output |-> BackArchive,
                 workers |-> 1, fault |-> fault, before |-> fs, now |-> call.now + 1,
                 first |-> call]
    /\ pc' = "call"
    /\ plan' = NoPlan
    /\ work' = NoWork
    /\ history' = <<>>
    /\ UNCHANGED <<dataset, heap, fs, err, queries>>

NextRoundTrip ==
    \/ Zip2FolderRemote
    \/ Zip2FolderLocal
    \/ ExtractMember
    \/ ExtractDone
    \/ LocalLevels
    \/ LocalMetadata
    \/ LocalCollection
    \/ ExecuteTask
    \/ TasksDone
    \/ FinalizeLevels
    \/ FinalizeLocalMetadata
    \/ FinalizeCollection
    \/ ThenFolder2Zip
    \/ Folder2Zip
    \/ FinalizeFolder2Zip

SpecRoundTrip == InitApiZip2Folder /\ [][NextRoundTrip]_vars

-----------------------------------------------------------------------------
(* execute(task) called by the user on tasks of their own                    *)

\* a source object of n bytes: byte i is i, so every range of it is told apart
BytesOf(n) == [i \in 1..n |-> i]

\* None or a number
Optional(S) == {<<>>} \cup {<<x>> : x \in S}

SrcNames == {<<"src.bin">>, <<RemoteRoot, "src.bin">>}
Dest == <<"d", "dest.bin">>
OtherDest == <<"d", "other.bin">>

\* what is at the destination of the first task before it runs: nothing, a file,
\* a directory, or a file where its parent directory should be
DestStates == {"absent", "file", "dir", "parent_is_file"}

DestOccupied(fsys, state) ==
    CASE state = "absent" -> fsys
      [] state = "file" -> WriteFile(MkdirP(fsys, Parent(Dest)), Dest, [bytes |-> <<9, 9>>])
      [] state = "dir" -> MkdirP(fsys, Dest)
      [] state = "parent_is_file" -> WriteFile(fsys, Parent(Dest), [bytes |-> <<9>>])

\* two tasks on one source of 0..MaxBytes bytes, there or not yet there: the first
\* with any offset and size, the second a copy of the whole source to another
\* destination
InitExecute ==
    \E n \in 0..MaxBytes, src \in SrcNames, srcExists \in BOOLEAN,
       offset \in Optional(0..MaxBytes), size \in Optional(0..MaxBytes),
       destState \in DestStates :
    LET stored == IF srcExists THEN WriteFile(EmptyFs, src, [bytes |-> BytesOf(n)]) ELSE EmptyFs
    IN  /\ dataset = [source |-> src, bytes |-> BytesOf(n)]
        /\ heap = EmptyDict
        /\ fs = DestOccupied(stored, destState)
        /\ call = [op |-> "execute", now |-> 1]
        /\ pc = "tasks"
        /\ plan = NoPlan
        /\ err = ""
        /\ queries = [view_evals |-> 0, loads |-> 0, returned |-> <<>>]
        /\ work = [tasks |-> <<[src |-> src, dest |-> Dest, offset |-> offset, size |-> size],
                               [src |-> src, dest |-> OtherDest, offset |-> <<>>, size |-> <<>>]>>,
                    pending |-> {1, 2}, temp |-> <<>>]
        /\ history = <<>>

\* the user calls execute on one of the tasks, the first time or again; the run is
\* logged with the outcome of its read and the filesystem before and after it
Execute ==
    /\ pc = "tasks"
    /\ Len(history) < MaxCalls
    /\ \E i \in DOMAIN work.tasks : \E read \in ReadBytes(fs, work.tasks[i]) :
       \E disk_full \in BOOLEAN :
        LET r == execute(fs, work.tasks[i], read, disk_full)
        IN  /\ fs' = r.fs
            /\ err' = r.err
            /\ history' = Append(history, [task |-> i, err |-> r.err, read |-> read.err,
                                           before |-> fs, after |-> r.fs])
            /\ work' = [work EXCEPT !.pending = IF r.err = "" THEN @ \ {i} ELSE @]
    /\ UNCHANGED <<dataset, heap, call, pc, plan, queries>>

\* the root cause of a failure is fixed: the missing source is put in place
Repair ==
    /\ pc = "tasks"
    /\ history # <<>>
    /\ dataset.source \notin DOMAIN fs.files
    /\ fs' = WriteFile(fs, dataset.source, [bytes |-> dataset.bytes])
    /\ UNCHANGED <<dataset, heap, call, pc, plan, err, queries, work, history>>

NextExecute == Execute \/ Repair

SpecExecute == InitExecute /\ [][NextExecute]_vars

-----------------------------------------------------------------------------
(* Two callers, each running plan -> execute every task -> finalize on the   *)
(* same output path.  work[p] is the position of caller p: its plan, the     *)
(* index of its next task, its exception, whether the output path existed    *)
(* when it planned, and whether it has written under the output path         *)

Pipelines == {1, 2}

InitPipelines ==
    \E D \in 0..1, hasRel \in BOOLEAN, planner \in {"plan_export", "plan_zip2folder"},
       outState \in {"absent", "dir"} :
    \E sh \in Shapes(D, 1) :
    \E view \in SUBSET AllRows(1, sh) :
    LET ds == DatasetOf("single", "zip", LevelsOf("single", "zip", hasRel, D, sh),
                        view, FALSE, Cardinality(view), EmptyDict, FALSE)
        stored == Occupied([EmptyFs EXCEPT !.files = ArchiveOnDisk(ds)], <<"out">>, outState)
    IN  /\ view # {}
        /\ planner = "plan_zip2folder" => view = AllRows(1, sh)
        /\ dataset = ds
        /\ heap = InitialHeap(sh, 1)
        /\ fs = stored
        /\ call = [op |-> planner, source |-> ds.path, output |-> <<"out">>, now |-> 1,
                   before |-> stored]
        /\ pc = "pipelines"
        /\ plan = NoPlan
        /\ err = ""
        /\ queries = [view_evals |-> 0, loads |-> 0, returned |-> <<>>]
        /\ work = [p \in Pipelines |->
                      [pc |-> "call", plan |-> NoPlan, next |-> 1, err |-> "",
                       saw_output |-> FALSE, wrote |-> FALSE]]
        /\ history = <<>>

\* caller p calls plan_export(view, output) or plan_zip2folder(source, output)
PipePlan(p) ==
    /\ pc = "pipelines"
    /\ work[p].pc = "call"
    /\ \E results \in [(queries.view_evals + 1)..(queries.view_evals + 2) -> ViewResults(dataset)] :
        LET r == IF call.op = "plan_export"
                 THEN plan_export(dataset, heap, fs, call.output, results, call.now, queries)
                 ELSE plan_zip2folder(dataset, heap, fs, call.source, call.output, results,
                                      queries)
        IN  /\ heap' = r.heap
            /\ queries' = r.queries
            /\ work' = [work EXCEPT ![p] =
                            [@ EXCEPT !.pc = IF r.err = "" THEN "planned" ELSE "failed",
                                      !.plan = r.plan,
                                      !.err = r.err,
                                      !.saw_output = Exists(fs, call.output)]]
    /\ UNCHANGED <<dataset, fs, call, pc, plan, err, history>>

\* caller p calls execute on the next task of its plan
PipeExecute(p) ==
    /\ pc = "pipelines"
    /\ work[p].pc = "planned"
    /\ work[p].next <= Len(work[p].plan.tasks)
    /\ \E read \in ReadBytes(fs, work[p].plan.tasks[work[p].next]) :
        LET r == execute(fs, work[p].plan.tasks[work[p].next], read, FALSE)
        IN  /\ fs' = r.fs
            /\ work' = [work EXCEPT ![p] =
                            [@ EXCEPT !.pc = IF r.err = "" THEN "planned" ELSE "failed",
                                      !.next = @ + 1,
                                      !.err = r.err,
                                      !.wrote = (@ \/ Under(r.fs, call.output)
                                                            # Under(fs, call.output))]]
    /\ UNCHANGED <<dataset, heap, call, pc, plan, err, queries, history>>

\* caller p calls finalize(plan) when its tasks have run
PipeFinalize(p) ==
    /\ pc = "pipelines"
    /\ work[p].pc = "planned"
    /\ work[p].next > Len(work[p].plan.tasks)
    /\ fs' = finalize_to_folder(fs, work[p].plan, heap)
    /\ work' = [work EXCEPT ![p] = [@ EXCEPT !.pc = "done", !.wrote = TRUE]]
    /\ UNCHANGED <<dataset, heap, call, pc, plan, err, queries, history>>

NextPipelines == \E p \in Pipelines : PipePlan(p) \/ PipeExecute(p) \/ PipeFinalize(p)

SpecPipelines == InitPipelines /\ [][NextPipelines]_vars

-----------------------------------------------------------------------------
(* Properties of the plans plan_* return                                    *)

Planned(kind) == pc = "planned" /\ plan.kind = kind

\* index of the deepest level of the plan, and the rows of its level l
Deepest == Len(plan.levels) - 1
PlanRows(l) == plan.levels[l + 1].rows

\* the rows the view returned when plan_export read it
Snapshot == ViewTable(dataset, queries.returned[1])

\* the rows of the view at level l: the snapshot at level 0, below it the table
\* reindexing reads
SourceRows(l) == IF l = 0 THEN Snapshot.rows ELSE ReindexSource(dataset, l).rows

SameSource(a, b) ==
    /\ Get(a, METADATA_SOURCE_PATH) = Get(b, METADATA_SOURCE_PATH)
    /\ Get(a, METADATA_SOURCE_FILE) = Get(b, METADATA_SOURCE_FILE)

\* where a source row sits in levels[l] (internal:gdal_vsi names the sample and
\* is copied unchanged)
OutPositions(l, s) ==
    {k \in DOMAIN PlanRows(l) : PlanRows(l)[k][METADATA_GDAL_VSI] = s[METADATA_GDAL_VSI]}

\* the same-source parent of a level-l row: the row of level l-1 whose old
\* current_id is the row's old parent_id
ParentsOf(l, s) ==
    {p \in Range(LevelView(dataset, l - 1).rows) :
        SameSource(p, s) /\ p[METADATA_CURRENT_ID] = s[METADATA_PARENT_ID]}

\* C1: in an ExportPlan a level-l row (l > 0) of the view is in levels[l] exactly
\* when its same-source parent is in levels[l-1], and its new parent_id is then
\* that parent's new current_id
C1_ParentChildPreserved ==
    Planned("ExportPlan") =>
        \A l \in 1..Deepest : \A s \in Range(SourceRows(l)) :
            LET parentAt == UNION {OutPositions(l - 1, p) : p \in ParentsOf(l, s)}
            IN  /\ (OutPositions(l, s) # {}) <=> (parentAt # {})
                /\ \A k \in OutPositions(l, s) : \E j \in parentAt :
                       PlanRows(l)[k][METADATA_PARENT_ID] =
                           PlanRows(l - 1)[j][METADATA_CURRENT_ID]

\* C2: in every levels[l] of an ExportPlan internal:current_id is 0..N-1 in row
\* order
C2_Density ==
    Planned("ExportPlan") =>
        \A l \in 0..Deepest : \A i \in DOMAIN PlanRows(l) :
            PlanRows(l)[i][METADATA_CURRENT_ID] = i - 1

\* a plan of a filtered view in which some row below level 0 changed its id
C2_Witness ==
    /\ Planned("ExportPlan")
    /\ \E l \in 1..Deepest : \E s \in Range(SourceRows(l)) : \E k \in OutPositions(l, s) :
           s[METADATA_CURRENT_ID] # k - 1

\* C3: every row of levels[l > 0] of an ExportPlan has its internal:parent_id in
\* 0..|levels[l-1]|-1
C3_ParentInRange ==
    Planned("ExportPlan") =>
        \A l \in 1..Deepest : \A i \in DOMAIN PlanRows(l) :
            PlanRows(l)[i][METADATA_PARENT_ID] \in 0..(Len(PlanRows(l - 1)) - 1)

\* the level-0 rows of the source that levels[0] holds, as a table
Level0Kept ==
    [names |-> LevelView(dataset, 0).names,
     rows |-> SelectSeq(LevelView(dataset, 0).rows,
                 LAMBDA s : OutPositions(0, s) # {})]

\* C4: plan_export evaluates the level-0 view exactly once; the tasks and
\* levels[0] describe the rows of that one evaluation
C4_SingleSnapshot ==
    Planned("ExportPlan") =>
        /\ queries.view_evals = 1
        /\ Level0Kept = Snapshot
        /\ plan.tasks = collect_copy_tasks_from_snapshot(dataset, Level0Kept, call.output)
        /\ {t \in Range(plan.tasks) :
                \E s \in Range(LevelView(dataset, 0).rows) :
                    t = FileTask(s, call.output \o <<FOLDER_DATA_DIR>>)}
           = {FileTask(r, call.output \o <<FOLDER_DATA_DIR>>) :
                r \in {x \in Range(PlanRows(0)) : x[COLUMN_TYPE] = SAMPLE_TYPE_FILE}}

\* a plan of a sampling view whose evaluation returned a part of the rows
C4_Witness ==
    /\ Planned("ExportPlan")
    /\ dataset.random
    /\ queries.returned[1] # dataset.view
    /\ queries.returned[1] # {}
    /\ plan.tasks # <<>>

\* C5: collection["taco:pit_schema"]["root"]["n"] of an ExportPlan is the number
\* of rows of levels[0]
C5_RootCount ==
    Planned("ExportPlan") =>
        heap[PitRoot(plan.collection, heap)]["n"] = Len(PlanRows(0))

\* the FOLDER rows of the plan as <<level, position>>, and those above the
\* deepest level
FolderRows ==
    {f \in (0..Deepest) \X (1..MaxLevelRows) :
        /\ f[2] <= Len(PlanRows(f[1]))
        /\ PlanRows(f[1])[f[2]][COLUMN_TYPE] = SAMPLE_TYPE_FOLDER}

InnerFolderRows == {f \in FolderRows : f[1] < Deepest}

\* the path of a FOLDER row: its id after the path of the FOLDER row one level up
\* whose current_id is its parent_id; the id alone at level 0 or without such a row
RECURSIVE FolderPath(_, _)
FolderPath(l, i) ==
    LET row == PlanRows(l)[i]
        up == IF l = 0 THEN {}
              ELSE {j \in DOMAIN PlanRows(l - 1) :
                      /\ PlanRows(l - 1)[j][COLUMN_TYPE] = SAMPLE_TYPE_FOLDER
                      /\ PlanRows(l - 1)[j][METADATA_CURRENT_ID] = row[METADATA_PARENT_ID]}
    IN  IF up = {} THEN <<row[COLUMN_ID]>>
        ELSE Append(FolderPath(l - 1, CHOOSE j \in up : \A k \in up : k <= j), row[COLUMN_ID])

\* "DATA/<path>/"
FolderKey(f) == <<FOLDER_DATA_DIR>> \o FolderPath(f[1], f[2])

\* the rows of levels[l+1] whose parent_id is the folder's current_id, in order,
\* without internal:relative_path
ChildrenOf(f) ==
    LET next == plan.levels[f[1] + 2]
        mine == SelectSeq(next.rows,
                    LAMBDA r : r[METADATA_PARENT_ID] =
                                   PlanRows(f[1])[f[2]][METADATA_CURRENT_ID])
    IN  [names |-> next.names \ {METADATA_RELATIVE_PATH},
         rows |-> [k \in DOMAIN mine |->
                     [c \in (DOMAIN mine[k]) \ {METADATA_RELATIVE_PATH} |-> mine[k][c]]]]

\* f comes before g in the walk over levels and rows
Before(f, g) == f[1] < g[1] \/ (f[1] = g[1] /\ f[2] < g[2])

FolderPlan == Planned("ExportPlan") \/ Planned("Zip2FolderPlan")

\* C6 as stated: for every FOLDER row above the deepest level,
\* local_metadata["DATA/<path>/"] is the table of its children (zero rows, the
\* level's schema, for a folder without children)
C6_ChildrenOfEveryFolder ==
    FolderPlan =>
        \A f \in InnerFolderRows :
            /\ FolderKey(f) \in DOMAIN plan.local_metadata
            /\ plan.local_metadata[FolderKey(f)] = ChildrenOf(f)

\* C6: every FOLDER row above the deepest level has its entry
\* local_metadata["DATA/<path>/"], there is no other entry, and the entry is the
\* table of the children of the last FOLDER row with that path: of the folder
\* itself whenever no later folder shares its path
C6_ChildrenOfLastFolder ==
    FolderPlan =>
        /\ DOMAIN plan.local_metadata = {FolderKey(f) : f \in InnerFolderRows}
        /\ \A f \in InnerFolderRows :
              (\A g \in InnerFolderRows : FolderKey(g) = FolderKey(f) => ~Before(f, g))
                  => plan.local_metadata[FolderKey(f)] = ChildrenOf(f)

\* an export of two concatenated sources with the same folder paths: two folders
\* with different children under one key, and a folder that lost all its children
C6_Witness ==
    /\ Planned("ExportPlan")
    /\ \E f \in InnerFolderRows, g \in InnerFolderRows :
          /\ Before(f, g)
          /\ FolderKey(f) = FolderKey(g)
          /\ ChildrenOf(f) # ChildrenOf(g)
          /\ ChildrenOf(g).rows # <<>>
          /\ plan.local_metadata[FolderKey(g)] = ChildrenOf(g)

\* a folder whose children were all filtered away
C6_EmptyFolder ==
    /\ Planned("ExportPlan")
    /\ \E f \in InnerFolderRows :
          /\ ChildrenOf(f).rows = <<>>
          /\ plan.local_metadata[FolderKey(f)].rows = <<>>
          /\ plan.local_metadata[FolderKey(f)].names # {}

\* C7: every FOLDER row at every level of a plan's levels, the deepest level
\* included, has its key "DATA/<path>/" in local_metadata
C7_EveryFolderHasKey ==
    pc = "planned" => \A f \in FolderRows : FolderKey(f) \in DOMAIN plan.local_metadata

\* C8: no table of levels or local_metadata of an ExportPlan or Zip2FolderPlan has
\* one of the columns internal:offset, internal:size, internal:source_path,
\* internal:source_file (in its schema or in a row)
C8_ColumnPurity ==
    FolderPlan =>
        \A t \in Range(plan.levels) \cup Range(plan.local_metadata) :
            /\ t.names \cap EXPORT_STRIP_COLUMNS = {}
            /\ \A r \in Range(t.rows) : (DOMAIN r) \cap EXPORT_STRIP_COLUMNS = {}

\* a plan from a concatenated archive view: the source tables carry offset, size
\* and source_path, the plan has level tables with rows and folder tables
C8_Witness ==
    /\ Planned("ExportPlan")
    /\ {METADATA_OFFSET, METADATA_SIZE, METADATA_SOURCE_PATH}
           \subseteq LevelView(dataset, 0).names
    /\ PlanRows(0) # <<>>
    /\ \E k \in DOMAIN plan.local_metadata : plan.local_metadata[k].rows # <<>>

\* C9: when the output path exists, plan_export, plan_zip2folder and
\* plan_folder2zip raise PlanError("already exists") and nothing else: the view is
\* not evaluated, the source is not loaded, no other precondition is reported
C9_ExistsFirst ==
    (pc # "call" /\ Exists(fs, call.output)) =>
        /\ pc = "failed"
        /\ err = "PlanError: Output already exists"
        /\ plan = NoPlan
        /\ queries.view_evals = 0
        /\ queries.loads = 0

\* calls on an existing output for which another precondition fails as well: a
\* missing or damaged source folder
C9_Witness ==
    /\ pc = "failed"
    /\ Exists(fs, call.output)
    /\ call.op = "plan_folder2zip"
    /\ ~Exists(fs, call.source)

\* plan_export and plan_zip2folder called on an existing output
C9_WitnessExport ==
    /\ pc = "failed" /\ Exists(fs, call.output)
    /\ call.op = "plan_export" /\ dataset.has_level1_joins

C9_WitnessZip2Folder ==
    /\ pc = "failed" /\ Exists(fs, call.output)
    /\ call.op = "plan_zip2folder" /\ ~Loadable(fs, call.source)

-----------------------------------------------------------------------------
(* Properties of the high-level calls                                       *)

Finished == pc \in {"done", "failed"}

ExistedBefore == Exists(call.before, call.output)

\* the messages of PlanError
PlanErrors ==
    {"PlanError: Output already exists", "PlanError: Dataset is empty",
     "PlanError: Cannot export dataset with level1+ JOINs",
     "PlanError: Failed to open dataset", "PlanError: Source folder not found",
     "PlanError: COLLECTION.json not found", "PlanError: Invalid COLLECTION.json",
     "PlanError: METADATA directory not found", "PlanError: No level*.parquet files found",
     "PlanError: DATA directory not found", "PlanError: No data files found"}

\* an export to an archive of a view that has rows
ArchiveExport ==
    call.op = "export" /\ detect_format(call.output) = "zip" /\ dataset.root_n > 0

\* C10: no high-level operation (export to a folder or an archive, zip2folder,
\* folder2zip) writes into an output path that existed before the call: the call
\* fails with a PlanError; export(view, X.tacozip) is rejected for its output
\* exactly when X.tacozip exists
C10_ExistingOutputRejected ==
    /\ ExistedBefore => Under(fs, call.output) = Under(call.before, call.output)
    /\ (Finished /\ ExistedBefore) => (pc = "failed" /\ err \in PlanErrors)
    /\ (Finished /\ ArchiveExport) =>
            ((err = "PlanError: Output already exists") <=> ExistedBefore)

\* the three parts of C10 one by one: zip2folder of a local archive into an
\* existing directory; export to an existing archive; export to an archive that is
\* not there
C10_NeverWritesIntoExisting ==
    ExistedBefore => Under(fs, call.output) = Under(call.before, call.output)

C10_ExistingArchiveRejected ==
    (Finished /\ ArchiveExport /\ ExistedBefore) => err = "PlanError: Output already exists"

C10_AbsentArchiveAccepted ==
    (Finished /\ ArchiveExport /\ ~ExistedBefore) => err # "PlanError: Output already exists"

\* the calls that do reject an existing output: export to a folder, zip2folder of
\* a remote archive, folder2zip
C10_PlannedCallsReject ==
    (Finished /\ ExistedBefore
        /\ \/ call.op = "export" /\ detect_format(call.output) = "folder"
           \/ call.op = "zip2folder" /\ is_remote(call.source)
           \/ call.op = "folder2zip")
        => /\ pc = "failed" /\ err = "PlanError: Output already exists"
           /\ fs = call.before

-----------------------------------------------------------------------------
(* Properties of planning as a step                                          *)

Planning == pc = "call" /\ call.op \in {"plan_export", "plan_zip2folder", "plan_folder2zip"}

\* C11: a call of plan_export, plan_zip2folder or plan_folder2zip, whether it
\* returns a plan or raises, leaves the filesystem as it was, the output path
\* included
C11_PlanningWritesNothing == [][Planning => fs' = fs]_vars

\* a plan was returned and its output path is still absent
C11_Witness ==
    /\ pc = "planned"
    /\ plan.kind \in {"ExportPlan", "Zip2FolderPlan", "Folder2ZipPlan"}
    /\ ~Exists(fs, plan.output)

\* C12: no ExportPlan is returned whose levels[0] has zero rows (a view whose
\* level 0 has no rows makes plan_export raise PlanError "empty")
C12_NoEmptyPlan == Planned("ExportPlan") => Len(PlanRows(0)) > 0

\* C13: plan_export leaves the view's own collection unchanged, the nested
\* objects included
C13_CollectionUnchanged ==
    [][(pc = "call" /\ call.op = "plan_export")
            => JsonDumps(dataset.collection, heap') = JsonDumps(dataset.collection, heap)]_vars

-----------------------------------------------------------------------------
(* Properties of repeated planning                                           *)

\* the manifest of the plan as json.dumps writes it, and a manifest without its
\* timestamp
PlanDoc == JsonDumps(plan.collection, heap)
ExceptDate(doc) == [k \in DOMAIN doc \ {SUBSET_DATE_KEY} |-> doc[k]]

Transfers(p) == IF p.kind = "Folder2ZipPlan" THEN p.entries ELSE p.tasks

EquivalentToEarlier ==
    \A i \in DOMAIN history :
        /\ history[i].plan.kind = plan.kind
        /\ Transfers(history[i].plan) = Transfers(plan)
        /\ history[i].plan.levels = plan.levels
        /\ history[i].plan.local_metadata = plan.local_metadata
        /\ ExceptDate(history[i].doc) = ExceptDate(PlanDoc)

CalledAgain == pc \in {"planned", "failed"} /\ history # <<>>

\* C14 as stated: a second call of plan_* on the same view or source and the same
\* absent output returns a plan with the tasks or entries, levels, local_metadata
\* and collection (taco:subset_date aside) of the first
C14_SamePlanTwice == CalledAgain => (pc = "planned" /\ EquivalentToEarlier)

\* C14: the same, for a view each evaluation of which returns the same rows
C14_SamePlanTwiceSameRows ==
    (CalledAgain /\ ~dataset.random) => (pc = "planned" /\ EquivalentToEarlier)

\* a filtered view planned twice, the two manifests differing in their timestamp
C14_Witness ==
    /\ CalledAgain
    /\ Planned("ExportPlan")
    /\ ~dataset.random
    /\ dataset.root_n < Len(dataset.levels[1].rows)
    /\ plan.tasks # <<>>
    /\ PlanDoc[SUBSET_DATE_KEY] # history[1].doc[SUBSET_DATE_KEY]

-----------------------------------------------------------------------------
(* Properties of execute                                                     *)

\* the runs of execute so far; the task of a run, the bytes of its source before
\* the run, and whether the task has both an offset and a size
Runs == IF pc = "tasks" THEN DOMAIN history ELSE {}
TaskOf(h) == work.tasks[h.task]
SourceThere(h) == TaskOf(h).src \in DOMAIN h.before.files
SourceBytes(h) == h.before.files[TaskOf(h).src].bytes
Partial(t) == t.offset # <<>> /\ t.size # <<>>
Truncated(h) ==
    Partial(TaskOf(h)) /\ SourceThere(h)
        /\ Len(SourceBytes(h)) < TaskOf(h).offset[1] + TaskOf(h).size[1]

\* C15: a run of execute(task) that succeeds leaves at task.dest the bytes
\* src[offset, offset+size) when the task has both an offset and a size, and the
\* whole source otherwise (none of the two, or one of them), local or remote
C15_ExactBytes ==
    \A k \in Runs :
        LET h == history[k]
            t == TaskOf(h)
        IN  (h.err = "" /\ ~Truncated(h)) =>
                h.after.files[t.dest] =
                    [bytes |-> IF Partial(t)
                               THEN SubSeq(SourceBytes(h), t.offset[1] + 1,
                                           t.offset[1] + t.size[1])
                               ELSE SourceBytes(h)]

\* C16: a run on a task with an offset and a size whose source is shorter than
\* offset+size fails with ExecuteError and writes no destination file
C16_TruncatedSourceFails ==
    \A k \in Runs :
        LET h == history[k]
        IN  Truncated(h) => (h.err = "ExecuteError: Failed" /\ h.after = h.before)

Ancestors(path) == {SubSeq(path, 1, j) : j \in 1..(Len(path) - 1)}

\* a run changes nothing but the file at dest and the directories above it
Isolated(h) ==
    LET dest == TaskOf(h).dest
    IN  /\ DOMAIN h.after.files \ {dest} = DOMAIN h.before.files \ {dest}
        /\ \A f \in DOMAIN h.before.files \ {dest} : h.after.files[f] = h.before.files[f]
        /\ h.before.dirs \subseteq h.after.dirs
        /\ h.after.dirs \ h.before.dirs \subseteq Ancestors(dest)

\* a run that succeeds leaves at dest what one run on an empty destination
\* leaves: the bytes read, whatever was at dest before
AsSingleRun(h) ==
    h.err = "" =>
        \E r \in ReadBytes(h.before, TaskOf(h)) :
            r.err = "" /\ h.after.files[TaskOf(h).dest] = [bytes |-> r.data]

\* C17: execute is retry-safe (a run after a failed or a successful run of the
\* same task leaves dest as a single successful run does) and isolated (a run,
\* failed or not, changes no path but task.dest and its parent directories)
C17_RetrySafeIsolated == \A k \in Runs : Isolated(history[k]) /\ AsSingleRun(history[k])

\* a task run again with success after a failed run that left an empty file at
\* dest, the destination of the other task being in place
C17_Witness ==
    /\ pc = "tasks"
    /\ Len(history) = 2
    /\ history[1].task = history[2].task
    /\ history[1].err # "" /\ history[2].err = ""
    /\ TaskOf(history[2]).dest \in DOMAIN history[2].before.files
    /\ fs.files[TaskOf(history[2]).dest].bytes # <<>>

-----------------------------------------------------------------------------
(* Properties of the stages of the high-level calls                          *)

\* the stage the call is in: the last phase it entered
Phase == history[Len(history)]

\* the error kind of a message
KindOf(e) ==
    CASE e \in PlanErrors -> "plan"
      [] e = "ExecuteError: Failed" -> "execute"
      [] e = "FinalizeError: Failed to finalize" -> "finalize"
      [] OTHER -> "other"

\* C18: a failure of a high-level call leaves it with the error kind of the stage
\* it occurred in (PlanError while planning, ExecuteError for a transfer,
\* FinalizeError for a metadata or archive write), and a call that returns
\* normally had no failure
C18_ErrorKindOfStage ==
    /\ (pc \in {"failed", "cleanup"} /\ err # "") => KindOf(err) = Phase
    /\ pc = "done" => err = ""

\* the error of a transfer: of execute(task) or of the extraction of a member
TransferErrors == {"ExecuteError: Failed", "OSError: cannot extract member"}

FinalizeStages ==
    {"finalize_levels", "finalize_local", "finalize_collection", "temp_metadata",
     "packaging", "local_levels", "local_metadata", "local_collection"}

\* the folder the call builds: the temporary folder of an export to an archive,
\* else the output
Built == IF work.temp # <<>> THEN work.temp ELSE call.output

TransfersComplete ==
    /\ work.pending = {}
    /\ \A i \in DOMAIN work.tasks : work.tasks[i].dest \in DOMAIN fs.files
    /\ (call.op = "zip2folder" /\ ~is_remote(call.source)) =>
            \A m \in DataMembers(dataset) : call.output \o m.path \in DOMAIN fs.files

\* C19: in export and zip2folder, with one worker or several, the finalizing
\* stage begins only when every task has run with success; when a task fails the
\* call raises without finalizing and writes no METADATA/ and no COLLECTION.json;
\* the phases are plan, execute, finalize in this order, each at most once
C19_FinalizeAfterTasks ==
    call.op \in {"export", "zip2folder"} =>
        /\ pc \in FinalizeStages => (err = "" /\ TransfersComplete)
        /\ err \in TransferErrors =>
            /\ pc \in {"executing", "cleanup", "failed"}
            /\ "finalize" \notin Range(history)
            /\ ~Exists(fs, Append(Built, FOLDER_METADATA_DIR))
            /\ ~Exists(fs, Append(Built, FOLDER_COLLECTION_FILENAME))
        /\ IsPrefix(history, <<"plan", "execute", "finalize">>)

\* a pool of workers in which one task failed and another wrote its file, and
\* the call raised
C19_Witness ==
    /\ call.op \in {"export", "zip2folder"}
    /\ call.workers > 1
    /\ pc = "failed"
    /\ err = "ExecuteError: Failed"
    /\ \E i \in DOMAIN work.tasks :
        /\ work.tasks[i].dest \in DOMAIN fs.files
        /\ fs.files[work.tasks[i].dest].bytes # <<>>

\* C20: when an export to an archive has returned or raised on one of its exit
\* paths past planning (success, task failure, local-metadata write failure,
\* archive-writer failure), its temporary folder (beside the output, or under
\* temp_dir) does not exist, whether or not it existed before the call
C20_TempFolderRemoved ==
    (call.op = "export" /\ detect_format(call.output) = "zip" /\ Finished
        /\ plan.kind = "ExportPlan") =>
        Under(fs, create_temp_path(call.output, call.temp_dir)) = EmptyFs

\* an export with a temp_dir whose archive writer failed after the tasks had
\* filled the temporary folder
C20_Witness ==
    /\ call.op = "export" /\ detect_format(call.output) = "zip"
    /\ pc = "failed"
    /\ err = "ZipWriterError: cannot write"
    /\ call.temp_dir # <<>>
    /\ call.temp_dir \in fs.dirs
    /\ plan.tasks # <<>>

-----------------------------------------------------------------------------
(* Properties of the tasks of a plan                                         *)

\* a view of one source: its rows carry no concat column
SingleSource == LevelView(dataset, 0).names \cap CONCAT_COLUMNS = {}

\* C21: in a plan built from a single-source view no two tasks have the same
\* dest, at every depth and whether or not the rows carry internal:relative_path
C21_DistinctDests ==
    (FolderPlan /\ SingleSource) =>
        \A i \in DOMAIN plan.tasks : \A j \in DOMAIN plan.tasks :
            i # j => plan.tasks[i].dest # plan.tasks[j].dest

\* the same for the views whose rows carry internal:relative_path
C21_DistinctDestsWithRelativePath ==
    (FolderPlan /\ SingleSource /\ METADATA_RELATIVE_PATH \in LevelView(dataset, 0).names) =>
        \A i \in DOMAIN plan.tasks : \A j \in DOMAIN plan.tasks :
            i # j => plan.tasks[i].dest # plan.tasks[j].dest

\* the tasks of the call have all run, none has failed, and the stage after them
\* has not begun
TasksAllRun == pc = "executing" /\ work.pending = {} /\ err = ""

\* C22: the tasks of a plan run on a pool of more than one thread, in any order
\* of completion, leave under the output the files with the contents that running
\* them one after the other in plan order leaves
C22_PoolAsSequential ==
    (call.op \in {"export", "zip2folder"} /\ call.workers > 1 /\ TasksAllRun) =>
        Under(fs, Built) = Under(execute_tasks_in_order(call.before, work.tasks, 1).fs, Built)

\* the same for the plans whose tasks have pairwise distinct dest paths
C22_PoolAsSequentialDistinctDests ==
    (call.op \in {"export", "zip2folder"} /\ call.workers > 1 /\ TasksAllRun
        /\ \A i \in DOMAIN work.tasks : \A j \in DOMAIN work.tasks :
              i # j => work.tasks[i].dest # work.tasks[j].dest) =>
        Under(fs, Built) = Under(execute_tasks_in_order(call.before, work.tasks, 1).fs, Built)

-----------------------------------------------------------------------------
(* Properties of the fast path of zip2folder                                 *)

LocalZip2Folder == call.op = "zip2folder" /\ ~is_remote(call.source) /\ call.fault = "none"

\* what the general path makes of the arguments of the call
GeneralPath == zip2folder_planned(dataset, heap, call.before, call.source, call.output)

\* C23: for every local archive and output path, _zip2folder_local ends as
\* plan_zip2folder, execute of every task and finalize end: with the same files
\* under DATA/, the same METADATA/ level files, __meta__ files and COLLECTION.json,
\* or with the same error
C23_FastPathAsGeneral ==
    (LocalZip2Folder /\ Finished) =>
        /\ err = GeneralPath.err
        /\ Under(fs, call.output) = Under(GeneralPath.fs, call.output)

\* the same for an archive that loads, whose rows carry internal:relative_path,
\* and an output path that does not exist
C23_FastPathAsGeneralFreshOutput ==
    (LocalZip2Folder /\ Finished /\ ~ExistedBefore /\ Loadable(call.before, call.source)
        /\ METADATA_RELATIVE_PATH \in LevelView(dataset, 0).names) =>
        /\ pc = "done"
        /\ err = GeneralPath.err
        /\ Under(fs, call.output) = Under(GeneralPath.fs, call.output)

\* the fast path into an existing directory
C23_ExistingOutput ==
    (LocalZip2Folder /\ Finished /\ call.output \in call.before.dirs
        /\ Loadable(call.before, call.source)) =>
        /\ err = GeneralPath.err
        /\ Under(fs, call.output) = Under(GeneralPath.fs, call.output)

\* the fast path on an archive without internal:relative_path
C23_NoRelativePath ==
    (LocalZip2Folder /\ Finished /\ ~ExistedBefore /\ Loadable(call.before, call.source)) =>
        /\ err = GeneralPath.err
        /\ Under(fs, call.output) = Under(GeneralPath.fs, call.output)

\* the fast path on a source that does not load
C23_SourceMissing ==
    (LocalZip2Folder /\ Finished /\ ~ExistedBefore /\ ~Loadable(call.before, call.source)) =>
        err = GeneralPath.err

-----------------------------------------------------------------------------
(* Properties of the round trip archive -> folder -> archive                 *)

INTERNAL_COLUMNS ==
    {METADATA_CURRENT_ID, METADATA_PARENT_ID, METADATA_GDAL_VSI, METADATA_RELATIVE_PATH,
     METADATA_OFFSET, METADATA_SIZE, METADATA_SOURCE_PATH, METADATA_SOURCE_FILE}

\* the id and the user's columns of the rows of a table, in row order
PublicColumns(table) ==
    [i \in DOMAIN table.rows |->
        [c \in (DOMAIN table.rows[i]) \ INTERNAL_COLUMNS |-> table.rows[i][c]]]

\* folder2zip ran on the folder zip2folder had returned
RoundTrip == call.op = "folder2zip" /\ "first" \in DOMAIN call

\* the level tables the archive writer was handed
Handed == fs.files[call.output].levels

\* C24: zip2folder then folder2zip hands the archive writer level tables whose
\* level-0 id and user columns are those of the original archive, in the same row
\* order, with the original's number of rows at every level
C24_RoundTripKeepsRows ==
    (RoundTrip /\ Finished) =>
        /\ err \in {"", "FinalizeError: Failed to finalize"}
        /\ pc = "done" =>
            /\ Len(Handed) = Len(dataset.levels)
            /\ PublicColumns(Handed[1]) = PublicColumns(dataset.levels[1])
            /\ \A l \in DOMAIN Handed : Len(Handed[l].rows) = Len(dataset.levels[l].rows)

\* a nested archive with two roots went to a folder and back
C24_Witness ==
    /\ RoundTrip
    /\ pc = "done"
    /\ Len(Handed) = 2
    /\ Len(Handed[1].rows) = 2
    /\ Handed[1].rows[1][COLUMN_LOCATION] # Handed[1].rows[2][COLUMN_LOCATION]
    /\ Len(Handed[2].rows) > 2

-----------------------------------------------------------------------------
(* Properties of finalize                                                    *)

\* finalize(plan) is running on an ExportPlan or a Zip2FolderPlan
Finalizing == pc \in {"finalize_levels", "finalize_local", "finalize_collection"}

\* what finalize(p) leaves when it returns: the level files, the __meta__ files
\* and COLLECTION.json under p.output, and p.output as its value
FinalizedFolder(fsys, p, w) ==
    /\ \A l \in DOMAIN p.levels :
        LET f == p.output \o <<FOLDER_METADATA_DIR, LevelFile(l - 1)>>
        IN  f \in DOMAIN fsys.files /\ fsys.files[f] = [table |-> p.levels[l]]
    /\ \A k \in DOMAIN p.local_metadata :
        LET f == Append(p.output \o k, FOLDER_META_FILENAME)
        IN  f \in DOMAIN fsys.files /\ fsys.files[f] = [table |-> p.local_metadata[k]]
    /\ Append(p.output, FOLDER_COLLECTION_FILENAME) \in DOMAIN fsys.files
    /\ w.result = p.output

\* C25: when finalize returns on an ExportPlan or Zip2FolderPlan the output holds
\* METADATA/level<l>.parquet for every l in 0..len(levels)-1, a __meta__ file at
\* output/<folder_path>/ for every key of local_metadata, and COLLECTION.json;
\* the value returned is plan.output, and no step of finalize changes the plan
C25_FinalizeWritesMetadata ==
    [][Finalizing => (plan' = plan /\ (pc' = "done" => FinalizedFolder(fs', plan, work')))]_vars

\* finalize returned on a plan with two levels and a folder table that has rows
C25_Witness ==
    /\ pc = "done"
    /\ plan.kind \in {"ExportPlan", "Zip2FolderPlan"}
    /\ "result" \in DOMAIN work
    /\ Len(plan.levels) = 2
    /\ \E k \in DOMAIN plan.local_metadata :
        /\ plan.local_metadata[k].rows # <<>>
        /\ Append(plan.output \o k, FOLDER_META_FILENAME) \in DOMAIN fs.files

-----------------------------------------------------------------------------
(* Properties of the tasks and the metadata of an ExportPlan                 *)

\* the FILE rows of the plan's levels as <<level, position>>
FileRows ==
    {f \in (0..Deepest) \X (1..MaxLevelRows) :
        /\ f[2] <= Len(PlanRows(f[1]))
        /\ PlanRows(f[1])[f[2]][COLUMN_TYPE] = SAMPLE_TYPE_FILE}

\* the task reads the sample of the row
Reads(task, row) ==
    [task EXCEPT !.dest = <<>>] = vsi_to_copy_task(row[METADATA_GDAL_VSI], <<>>)

TasksMatchRows ==
    /\ \A f \in FileRows :
        Cardinality({k \in DOMAIN plan.tasks :
                        Reads(plan.tasks[k], PlanRows(f[1])[f[2]])}) = 1
    /\ \A k \in DOMAIN plan.tasks :
        \E f \in FileRows : Reads(plan.tasks[k], PlanRows(f[1])[f[2]])

\* C26: in every ExportPlan there is exactly one task for each row of type FILE
\* of plan.levels and no task without such a row, filtered level views and rows
\* with a filtered-out parent included
C26_TasksMatchFileRows == Planned("ExportPlan") => TasksMatchRows

\* the same for a view that advertises a filtered level view
C26_FilteredLevelViews ==
    (Planned("ExportPlan") /\ DOMAIN dataset.filtered_level_views # {}) => TasksMatchRows

\* the same for a view of depth 2 or more without filtered level views
C26_DeepLevels ==
    (Planned("ExportPlan") /\ DOMAIN dataset.filtered_level_views = {}
        /\ dataset.max_depth >= 2) => TasksMatchRows

\* the same for a view of depth 0 or 1 without filtered level views
C26_ShallowPlainViews ==
    (Planned("ExportPlan") /\ DOMAIN dataset.filtered_level_views = {}
        /\ dataset.max_depth <= 1) => TasksMatchRows

-----------------------------------------------------------------------------
(* Properties of two pipelines on one output path                            *)

\* C27: of two plan -> execute -> finalize pipelines on the same output path, in
\* any interleaving, at most one writes under that path
C27_OneWriter == pc = "pipelines" => ~(work[1].wrote /\ work[2].wrote)

\* a pipeline that planned when the output path existed writes nothing
C27_GuardAtPlanTime ==
    pc = "pipelines" =>
        \A p \in Pipelines :
            work[p].saw_output =>
                /\ work[p].pc = "failed"
                /\ work[p].err = "PlanError: Output already exists"
                /\ ~work[p].wrote

-----------------------------------------------------------------------------
(* Properties of the archive export writes                                   *)

ExportedArchive == call.op = "export" /\ detect_format(call.output) = "zip" /\ pc = "done"

\* the member paths of the archive at the output, and the paths below the
\* temporary folder the tasks of the relocated plan wrote
Packaged == DOMAIN fs.files[call.output].members
TaskFiles ==
    {SubSeq(work.tasks[i].dest, Len(work.temp) + 1, Len(work.tasks[i].dest)) :
        i \in DOMAIN work.tasks}

\* C28: the archive of an export holds under DATA/ exactly the files the tasks of
\* the relocated plan wrote, also when the temporary folder existed with other
\* files before the call
C28_ArchiveHoldsTaskFiles == ExportedArchive => Packaged = TaskFiles

\* the same for the calls that find no temporary folder
C28_ArchiveHoldsTaskFilesFreshTemp ==
    (ExportedArchive /\ ~Exists(call.before, work.temp)) => Packaged = TaskFiles

-----------------------------------------------------------------------------
(* Properties of a failed read                                               *)

\* C29: when the read of execute(task) fails the call raises ExecuteError and
\* task.dest is as before the call: not created, not truncated, its parent
\* directories not created (nothing at all is written)
C29_FailedReadLeavesDest ==
    \A k \in Runs :
        history[k].read # "" =>
            /\ history[k].err = "ExecuteError: Failed"
            /\ history[k].after = history[k].before

\* a run whose read failed on a destination that held bytes
C29_Witness ==
    /\ pc = "tasks"
    /\ Len(history) = 1
    /\ history[1].read # ""
    /\ TaskOf(history[1]).dest \in DOMAIN history[1].before.files
    /\ history[1].before.files[TaskOf(history[1]).dest].bytes # <<>>
    /\ fs.files[TaskOf(history[1]).dest] = history[1].before.files[TaskOf(history[1]).dest]

\* a run whose read failed when the parent directory of the destination did not
\* exist
C29_WitnessNoParent ==
    /\ pc = "tasks"
    /\ Len(history) = 1
    /\ history[1].read # ""
    /\ Parent(TaskOf(history[1]).dest) \notin history[1].before.dirs
    /\ Parent(TaskOf(history[1]).dest) \notin fs.dirs

-----------------------------------------------------------------------------
(* Properties of the order of the metadata writes                            *)

\* a call that builds a folder at its output: export to a folder, zip2folder
FolderCall ==
    \/ call.op = "export" /\ detect_format(call.output) = "folder"
    \/ call.op = "zip2folder"

\* the level tables and folder tables the call writes: those of its plan, or of
\* _zip2folder_local
MetadataOfCall ==
    IF plan = NoPlan
    THEN [levels |-> work.levels, local_metadata |-> work.local_metadata]
    ELSE [levels |-> plan.levels, local_metadata |-> plan.local_metadata]

\* COLLECTION.json is at the output and was not there before the call
CollectionWritten ==
    /\ Append(call.output, FOLDER_COLLECTION_FILENAME) \in DOMAIN fs.files
    /\ Append(call.output, FOLDER_COLLECTION_FILENAME) \notin DOMAIN call.before.files

\* C30: COLLECTION.json is written last: in every state during or after the
\* finalization of a folder, also after a failure, if COLLECTION.json has been
\* written then every METADATA/level<l>.parquet and every __meta__ file of the
\* plan has been written
C30_CollectionLast ==
    (FolderCall /\ CollectionWritten) =>
        /\ \A l \in DOMAIN MetadataOfCall.levels :
            call.output \o <<FOLDER_METADATA_DIR, LevelFile(l - 1)>> \in DOMAIN fs.files
        /\ \A k \in DOMAIN MetadataOfCall.local_metadata :
            Append(call.output \o k, FOLDER_META_FILENAME) \in DOMAIN fs.files

\* the fast path of zip2folder wrote COLLECTION.json after two level files and a
\* __meta__ file
C30_Witness ==
    /\ call.op = "zip2folder" /\ ~is_remote(call.source)
    /\ pc = "done"
    /\ CollectionWritten
    /\ Len(work.levels) = 2
    /\ DOMAIN work.local_metadata # {}

\* finalize wrote COLLECTION.json after two level files and a __meta__ file
C30_WitnessFinalize ==
    /\ FolderCall
    /\ plan # NoPlan
    /\ pc = "done"
    /\ CollectionWritten
    /\ Len(plan.levels) = 2
    /\ DOMAIN plan.local_metadata # {}

\* the level files are written and the call failed before COLLECTION.json
C30_WitnessFailure ==
    /\ FolderCall
    /\ pc = "failed"
    /\ err = "FinalizeError: Failed to finalize"
    /\ call.output \o <<FOLDER_METADATA_DIR, LevelFile(0)>> \in DOMAIN fs.files
    /\ ~CollectionWritten

====
